---- MODULE Spec2Model ----
(***************************************************************************)
(* A model of dragonfly's ServerFamily (src/server/server_family.cc): the  *)
(* snapshot orchestrator DoSave with its callers (the SAVE/BGSAVE handler  *)
(* and the snapshot scheduler), the load-on-boot path, the save-schedule   *)
(* parser and matcher, and the flush commands, on top of the transaction   *)
(* engine and the global-state switch the file consumes.                   *)
(***************************************************************************)
EXTENDS Integers, Sequences, FiniteSets, TLC

(* ------------------------------ bounds -------------------------------- *)

\* number of engine shards (a runtime parameter of the server)
NumShards == 2
\* the clock runs from StartClock to StartClock + MaxTicks * ClockStep
MaxTicks == 2
\* seconds between two observations of the clock: the scheduler's sleep,
\* loop_sleep_time
ClockStep == 20
\* unix time at which the server is constructed (00:00:40 UTC)
StartClock == 40

Clients == {"c1", "c2"}
Sched == "sched"
Procs == Clients \cup {Sched}
ShardIds == 0 .. (NumShards - 1)

\* the number of reactor threads, shard_set->pool()->size()
NumThreads == 2
Threads == 0 .. NumThreads - 1

(* ------------------------- the save schedule -------------------------- *)

\* characters are one-character strings; CharCode gives their ASCII code
Alphabet == {"*", "/", "0", "1", "2", "3", "4", "5", "6", "7", "8", "9", ":", "a"}
CharCode(c) ==
  CASE c = "*" -> 42 [] c = "/" -> 47 [] c = "0" -> 48 [] c = "1" -> 49
    [] c = "2" -> 50 [] c = "3" -> 51 [] c = "4" -> 52 [] c = "5" -> 53
    [] c = "6" -> 54 [] c = "7" -> 55 [] c = "8" -> 56 [] c = "9" -> 57
    [] c = ":" -> 58 [] c = "a" -> 97

\* std::optional<SnapshotSpec>: nullopt is the spec without an hour, which no
\* parse produces (the separator is never the first character)
nullopt == [hour_spec |-> <<>>, minute_spec |-> <<>>]

\* string_view::find(':'): the 0-based index of the first ':', or npos (the
\* largest index; any value above every length serves)
npos == 2147483647
RECURSIVE FindFrom(_, _)
FindFrom(time, i) ==
  IF i > Len(time) THEN npos
  ELSE IF time[i] = ":" THEN i - 1
  ELSE FindFrom(time, i + 1)
Find(time) == FindFrom(time, 1)

\* the loop of IsValidSaveScheduleNibble from position i (1-based) on, with
\* min_match accumulated so far (an unsigned int: a time has at most 5
\* characters, so it stays below 10^5 and never wraps)
RECURSIVE NibbleLoop(_, _, _, _)
NibbleLoop(time, max, i, min_match) ==
  IF i > Len(time) THEN min_match <= max
  ELSE IF time[i] # "*" /\ (CharCode(time[i]) < CharCode("0") \/ CharCode(time[i]) > CharCode("9"))
  THEN FALSE
  ELSE NibbleLoop(time, max, i + 1,
         min_match * 10
            + (IF time[i] = "*" THEN 0 ELSE CharCode(time[i]) - CharCode("0")))

\* a validity test that compares with < where the code compares with <=
IsValidSaveScheduleNibbleStrict(time, max) == NibbleLoop(time, max - 1, 1, 0)

\* a validity test that admits every value of two digits
IsValidSaveScheduleNibbleAny(time, max) == NibbleLoop(time, 99, 1, 0)

IsValidSaveScheduleNibble(time, max) == NibbleLoop(time, max, 1, 0)

\* the largest hour and minute ParseSaveSchedule admits
MaxHour == 23
MaxMinute == 59

ParseSaveSchedule(time) ==
  IF Len(time) < 3 \/ Len(time) > 5 THEN nullopt
  ELSE LET separator_idx == Find(time) IN
    IF separator_idx = 0 \/ separator_idx >= 3 THEN nullopt
    ELSE LET spec == [hour_spec |-> SubSeq(time, 1, separator_idx),
                      minute_spec |-> SubSeq(time, separator_idx + 2, Len(time))] IN
      IF spec.minute_spec # <<"*">> /\ Len(spec.minute_spec) # 2 THEN nullopt
      ELSE IF IsValidSaveScheduleNibble(spec.hour_spec, MaxHour)
              /\ IsValidSaveScheduleNibble(spec.minute_spec, MaxMinute)
           THEN spec
           ELSE nullopt

\* the loop of DoesTimeNibbleMatchSpecifier, from position i (1-based) down
RECURSIVE MatchLoop(_, _, _)
MatchLoop(time_spec, i, current_time) ==
  IF i < 1 THEN current_time = 0
  ELSE IF time_spec[i] # "*"
          /\ (current_time % 10) # (CharCode(time_spec[i]) - CharCode("0"))
  THEN FALSE
  ELSE MatchLoop(time_spec, i - 1, current_time \div 10)

\* a matcher that ends with `return true`: the digits left of the spec are
\* not looked at
DoesTimeNibbleMatchSuffix(time_spec, current_time) ==
  IF time_spec = <<"*">> THEN TRUE
  ELSE \A i \in 1 .. Len(time_spec) :
         time_spec[i] = "*"
           \/ CharCode(time_spec[i]) - CharCode("0")
                = (current_time \div (10 ^ (Len(time_spec) - i))) % 10

DoesTimeNibbleMatchSpecifier(time_spec, current_time) ==
  IF time_spec = <<"*">> THEN TRUE
  ELSE MatchLoop(time_spec, Len(time_spec), current_time)

DoesTimeMatchSpecifier(spec, now) ==
  LET hour == (now \div 3600) % 24
      min == (now \div 60) % 60
  IN DoesTimeNibbleMatchSpecifier(spec.hour_spec, hour)
       /\ DoesTimeNibbleMatchSpecifier(spec.minute_spec, min)

(* ------------------------------- state -------------------------------- *)

VARIABLES
  global_state,    \* Service's global state: ACTIVE, LOADING, SAVING
  clock,           \* wall clock, unix seconds
  last_save_info_, \* ServerFamily::last_save_info_: [save_time, file_name]
  is_saving_,      \* ServerFamily::is_saving_
  load_pc,         \* ServerFamily::Init and the load fiber: boot, loading, done
  dir,             \* the flag --dir
  save_spec,       \* the parsed --save_schedule flag, or nullopt
  faults,          \* whether the file system may fail in this run
  pc,              \* per caller: its position in the handler / DoSave
  cmd,             \* per caller: the command it executes
  sv,              \* per caller: the locals of its DoSave execution
  txq,             \* per shard: the ordering queue of scheduled transactions
  hop,             \* per caller: the hop of its transaction (armed, shards run)
  db,              \* per shard: the DbSlice content (set of written tokens)
  cut,             \* per caller, per shard: what StartSnapshotInShard captured
  file,            \* per caller, per shard: the body written to the snapshot
  hop_db,          \* per caller, per shard: the DbSlice when its hop ran there
  time_arg,        \* the string handed to ParseSaveSchedule
  parse_result,    \* what ParseSaveSchedule returned for time_arg
  match,           \* the last call of DoesTimeMatchSpecifier and its result
  sched_now,       \* SnapshotScheduling's local `now` of the iteration that saves
  sched_wait,      \* the time at which SnapshotScheduling's WaitFor began
  is_snapshot_done_, \* ServerFamily::is_snapshot_done_: the notification fired
  shutdown_pc,     \* ServerFamily::Shutdown: none, notify, join, done (the fibers are
                   \* joined), locked, stop, stopped (the replica is stopped)
  saved_minutes,   \* history: the minutes holding the timestamp of a successful DoSave
  sched_failed,    \* history: the minutes of the scheduler's failed attempts
  state_mask_,     \* Replica::state_mask_: the set of flags that are set
  is_paused_,      \* Replica::is_paused_
  sock_,           \* Replica::sock_: null, open, or shutdown (by Stop)
  fb,              \* where the supervisor fiber sync_fb_ is suspended
  io,              \* whether the call it waits in has completed, and with what
  fb_ec,           \* ReplicateRedisFb's local ec
  master_context_, \* Replica::master_context_: master_repl_id, dfly_session_id
  num_df_flows_,   \* Replica::num_df_flows_
  repl_offs_,      \* Replica::repl_offs_
  repl_header,     \* InitiatePSync's local repl_header.fullsync
  last_ack,        \* ConsumeRedisStream's local last_ack
  ack_sent_at,     \* history: when the last REPLCONF ACK was sent
  sent,            \* the commands the function in progress sent on the main link
  stop_pc,         \* Replica::Stop: none, join, done
  shard_flows_,    \* Replica::shard_flows_: per flow its thread, command, state, error
  flow_pos,        \* per thread: how many of its flows InitiateDflySync started
  dfly_ec,         \* InitiateDflySync's local ec
  perr,            \* history: a protocol error was met since sock_ was created
  is_master,       \* per reactor thread: ServerState::tlocal()->is_master
  replica_,        \* ServerFamily::replica_: null, or set (the Replica of the replica variables)
  replicaof_mu_,   \* ServerFamily::replicaof_mu_: none, or who holds it
  fanout,          \* the AwaitFiberOnAll in progress: the value and the threads still to run
  crash,           \* none, or the CHECK or null dereference that ended the process
  unlocked,        \* history: the places that accessed replica_ without holding replicaof_mu_
  orphans          \* history: Replicas released while their supervisor fiber ran

confVars == <<save_spec, faults, dir>>
roleVars == <<is_master, replica_, replicaof_mu_, fanout, crash, unlocked, orphans>>
parseVars == <<time_arg, parse_result, match>>
schedVars == <<sched_now, sched_wait, is_snapshot_done_, shutdown_pc, saved_minutes, sched_failed>>
replicaVars == <<state_mask_, is_paused_, sock_, fb, io, fb_ec, master_context_,
                 num_df_flows_, repl_offs_, repl_header, last_ack, ack_sent_at, sent,
                 stop_pc, shard_flows_, flow_pos, dfly_ec, perr>>

vars == <<global_state, clock, last_save_info_, is_saving_, load_pc, save_spec,
          faults, dir, pc, cmd, sv, txq, hop, db, cut, file, hop_db,
          time_arg, parse_result, match, schedVars, replicaVars, roleVars>>

(* ------------------------- error codes, names ------------------------- *)

OK == "ok"
E_CREATE_DIR == "create_dir_error"
E_IN_PROGRESS == "operation_in_progress"
E_OPEN == "open_error"
E_HEADER == "header_error"
E_BODY == "body_error"
E_CLOSE == "close_error"

\* ServerFamily::start_time_
start_time_ == StartClock

\* GlobalStateName: the states are modelled by their names
GlobalStateName(s) == s

\* UpdateError: the first error wins
UpdateError(src, dest) == IF dest = OK THEN src ELSE dest

\* Service::SwitchState(from, to): atomically, if the state is `from` it
\* becomes `to`; the state after the call, which is the state observed when
\* nothing was switched, is returned
SwitchState(from, to) == IF global_state = from THEN to ELSE global_state

\* ToUpper on the argument words the model uses
ToUpper(w) == CASE w = "df" -> "DF" [] w = "xx" -> "XX" [] OTHER -> w

(* ------------------------- the command registry ----------------------- *)

\* a registry in which SAVE is admitted while loading
CommandFlagsSaveLoading(name) ==
  CASE name \in {"AUTH", "CLIENT", "DBSIZE", "DEBUG", "INFO", "HELLO", "LASTSAVE",
                 "LATENCY", "MEMORY", "SHUTDOWN", "REPLCONF", "ROLE"} -> {"LOADING"}
    [] name = "SAVE" -> {"ADMIN", "GLOBAL_TRANS", "LOADING"}
    [] name \in {"BGSAVE", "FLUSHDB", "FLUSHALL", "SLAVEOF", "REPLICAOF", "DFLY"}
         -> {"GLOBAL_TRANS"}
    [] OTHER -> {"WRITE"}

\* ServerFamily::Register: the option mask of each command. A command of
\* another family (the write of the transaction runs) is a plain WRITE
CommandFlags(name) ==
  CASE name = "AUTH" -> {"NOSCRIPT", "FAST", "LOADING"}
    [] name = "BGSAVE" -> {"ADMIN", "GLOBAL_TRANS"}
    [] name = "CLIENT" -> {"NOSCRIPT", "LOADING"}
    [] name = "CONFIG" -> {"ADMIN"}
    [] name = "DBSIZE" -> {"READONLY", "FAST", "LOADING"}
    [] name = "DEBUG" -> {"ADMIN", "LOADING"}
    [] name = "FLUSHDB" -> {"WRITE", "GLOBAL_TRANS"}
    [] name = "FLUSHALL" -> {"WRITE", "GLOBAL_TRANS"}
    [] name = "INFO" -> {"LOADING"}
    [] name = "HELLO" -> {"LOADING"}
    [] name = "LASTSAVE" -> {"LOADING", "FAST"}
    [] name = "LATENCY" -> {"NOSCRIPT", "LOADING", "FAST"}
    [] name = "MEMORY" -> {"LOADING", "READONLY", "FAST", "NOSCRIPT"}
    [] name = "SAVE" -> {"ADMIN", "GLOBAL_TRANS"}
    [] name = "SHUTDOWN" -> {"ADMIN", "NOSCRIPT", "LOADING"}
    [] name = "SLAVEOF" -> {"ADMIN", "GLOBAL_TRANS"}
    [] name = "REPLICAOF" -> {"ADMIN", "GLOBAL_TRANS"}
    [] name = "REPLCONF" -> {"ADMIN", "LOADING"}
    [] name = "ROLE" -> {"LOADING", "FAST", "NOSCRIPT"}
    [] name = "SCRIPT" -> {"NOSCRIPT"}
    [] name = "DFLY" -> {"ADMIN", "GLOBAL_TRANS"}
    [] OTHER -> {"WRITE"}

RegisteredCommands ==
  {"AUTH", "BGSAVE", "CLIENT", "CONFIG", "DBSIZE", "DEBUG", "FLUSHDB", "FLUSHALL",
   "INFO", "HELLO", "LASTSAVE", "LATENCY", "MEMORY", "SAVE", "SHUTDOWN", "SLAVEOF",
   "REPLICAOF", "REPLCONF", "ROLE", "SCRIPT", "DFLY"}

(* ---------------------------- DoSave locals --------------------------- *)

NoSnapshots == [i \in ShardIds |-> "null"]

\* per snapshot the path its file was opened at; <<>> is none
NoPaths == [i \in ShardIds |-> <<>>]

\* the locals of a DoSave that has not been entered, and the handler's reply
NoSave == [new_version |-> FALSE, ec |-> OK, err_details |-> "", now |-> 0,
           snapshots |-> NoSnapshots, paths |-> NoPaths, stage |-> {}, reply |-> <<>>]

\* a command: its name, its argument list (the name first) and the shards
\* owning its keys
NoCmd == [name |-> "", args |-> <<>>, keys |-> {}]
NoHop == [armed |-> FALSE, ran |-> {}]
\* per shard an optional content: <<>> is none, <<d>> is the content d
NoCut == [s \in ShardIds |-> <<>>]

\* the indices RunStage visits: every shard in the new version, else 0
RunStage(new_version) == IF new_version THEN ShardIds ELSE {0}

\* paths are sequences of parts: "/", names, "-", timestamps, shard numbers
\* and extensions. The default of the flag --dir is empty; DataDir is a
\* directory written with its trailing separator
NoDir == <<>>
DataDir == <<"/", "data", "/">>

\* `dbfilename.empty() ? "dump" : dbfilename`, with the flag at its default
Filename == <<"dump">>

Extensions == {".rdb", ".dfs"}

\* fs::path::has_extension and replace_extension()
HasExtension(filename) == Len(filename) > 1 /\ filename[Len(filename)] \in Extensions
ReplaceExtension(filename) ==
  IF HasExtension(filename) THEN SubSeq(filename, 1, Len(filename) - 1) ELSE filename

\* ExtendFilename: the legacy name (shard < 0) gets '-<time>.rdb' unless it
\* has an extension, a shard's name loses its extension and gets
\* '-<time>-<shard>.dfs'
ExtendFilename(now, shard, filename) ==
  IF shard < 0
  THEN IF ~HasExtension(filename) THEN filename \o <<"-", now, ".rdb">> ELSE filename
  ELSE ReplaceExtension(filename) \o <<"-", now, "-", shard, ".dfs">>

\* a join that puts a separator between the directory and the name when the
\* directory does not end with one
PathAppendSeparated(path, filename) ==
  IF path = <<>> \/ path[Len(path)] = "/" THEN path \o filename
  ELSE path \o <<"/">> \o filename

\* fs::path::operator+= as DoSave uses it (`path += filename`, `abs_path +=
\* shard_file`): the name is appended to the text of the path
PathAppend(path, filename) == path \o filename

\* the path a snapshot file is opened at: the legacy file (shard < 0) or the
\* file of a shard
OpenPath(now, shard) == PathAppend(dir, ExtendFilename(now, shard, Filename))

\* the published file name: the legacy path, or in the new version the path
\* of shard 0 (ExtendFilename(now, 0, &filename); path += filename)
SavePath(new_version, now) == OpenPath(now, IF new_version THEN 0 ELSE -1)

\* what the file system may answer
DirOutcomes == IF faults THEN {OK, E_CREATE_DIR} ELSE {OK}
OpenOutcomes == IF faults THEN {OK, E_OPEN, E_HEADER} ELSE {OK}
BodyOutcomes == IF faults THEN {OK, E_BODY} ELSE {OK}
CloseOutcomes == IF faults THEN {OK, E_CLOSE} ELSE {OK}

(* ------------------------- transaction engine ------------------------- *)

\* the shards a transaction participates in: every shard for GLOBAL_TRANS,
\* else the shards owning its keys
TxShards(c) ==
  IF "GLOBAL_TRANS" \in CommandFlags(c.name) THEN ShardIds ELSE c.keys

\* Transaction::Schedule: reserve a slot in the queue of each participating
\* shard, in one step for all of them
Schedule(p, c) == [s \in ShardIds |-> IF s \in TxShards(c) THEN Append(txq[s], p) ELSE txq[s]]

(* -------------------------------- Init -------------------------------- *)

\* the --save_schedule flags of the runs
ScheduleFlags == {<<"0", ":", "0", "1">>}

NotParsed == [called |-> FALSE, value |-> nullopt]
NotMatched == [called |-> FALSE, now |-> 0, result |-> FALSE]

\* the server after construction, without its replica
InitServer ==
  /\ clock = StartClock
  /\ last_save_info_ = [save_time |-> start_time_, file_name |-> <<>>]
  /\ is_saving_ = FALSE
  /\ global_state = "ACTIVE"
  /\ pc = [p \in Procs |-> "idle"]
  /\ cmd = [p \in Procs |-> NoCmd]
  /\ sv = [p \in Procs |-> NoSave]
  /\ txq = [s \in ShardIds |-> <<>>]
  /\ hop = [p \in Procs |-> NoHop]
  /\ db = [s \in ShardIds |-> {}]
  /\ cut = [p \in Procs |-> NoCut]
  /\ file = [p \in Procs |-> NoCut]
  /\ hop_db = [p \in Procs |-> NoCut]
  /\ parse_result = NotParsed
  /\ match = NotMatched
  /\ sched_now = 0
  /\ sched_wait = start_time_
  /\ is_snapshot_done_ = FALSE
  /\ shutdown_pc = "none"
  /\ saved_minutes = {}
  /\ sched_failed = {}
  /\ is_master = [t \in Threads |-> TRUE]
  /\ replica_ = "null"
  /\ replicaof_mu_ = "none"
  /\ fanout = [value |-> TRUE, left |-> {}]
  /\ crash = "none"
  /\ unlocked = {}
  /\ orphans = 0

\* a Replica as its constructor leaves it, before Run
InitNoReplica ==
  /\ state_mask_ = {}
  /\ is_paused_ = FALSE
  /\ sock_ = "null"
  /\ fb = "none"
  /\ io = [done |-> FALSE, res |-> <<>>]
  /\ fb_ec = OK
  /\ master_context_ = [master_repl_id |-> <<>>, dfly_session_id |-> <<>>]
  /\ num_df_flows_ = 0
  /\ repl_offs_ = 0
  /\ repl_header = [kind |-> "size", token |-> <<>>, size |-> 0]
  /\ last_ack = 0
  /\ ack_sent_at = 0
  /\ sent = <<>>
  /\ stop_pc = "none"
  /\ shard_flows_ = <<>>
  /\ flow_pos = <<>>
  /\ dfly_ec = OK
  /\ perr = FALSE

InitCommon == InitServer /\ InitNoReplica

\* the state when ServerFamily::Init is entered: the flag is parsed there
Init ==
  /\ InitCommon
  /\ time_arg = <<>>
  /\ load_pc = "boot"
  /\ save_spec \in {ParseSaveSchedule(f) : f \in ScheduleFlags}
  /\ faults = TRUE
  /\ dir = DataDir

\* commands are served and the scheduler runs once Init has returned
Serving == load_pc # "boot"

\* no reply is on its way. A handler that returned hands over its reply
\* (Done) before any other step is taken: the hand-over touches only the
\* caller's own locals and commutes with every other step, so the states at
\* the instant of each return are all kept. No step is taken either once a
\* handler has ended the process
Ready == \A q \in Procs : pc[q] \notin {"ret", "crashed"}

(* ----------------------------- load on boot --------------------------- *)

\* ServerFamily::Init calling Load when InferLoadFile found a file: Load
\* switches to LOADING and launches the load fiber
Load ==
  /\ load_pc = "boot"
  /\ \E found \in BOOLEAN :
       LET new_state == IF found THEN SwitchState("ACTIVE", "LOADING") ELSE global_state IN
         /\ global_state' = new_state
         /\ load_pc' = IF found /\ new_state = "LOADING" THEN "loading" ELSE "done"
  /\ UNCHANGED <<clock, last_save_info_, is_saving_, confVars, roleVars, pc, cmd, sv,
                 txq, hop, db, cut, file, hop_db, parseVars, schedVars, replicaVars>>

\* the load fiber: LoadRdb ends by switching back to ACTIVE
LoadRdb ==
  /\ Ready
  /\ load_pc = "loading"
  /\ global_state' = SwitchState("LOADING", "ACTIVE")
  /\ load_pc' = "done"
  /\ UNCHANGED <<clock, last_save_info_, is_saving_, confVars, roleVars, pc, cmd, sv,
                 txq, hop, db, cut, file, hop_db, parseVars, schedVars, replicaVars>>

(* ------------------------------ dispatch ------------------------------ *)

\* Service::DispatchCommand: while LOADING only LOADING-flagged commands run
DispatchAllowed(name) == global_state # "LOADING" \/ "LOADING" \in CommandFlags(name)

Dispatch(p, c) ==
  /\ Ready
  /\ Serving
  /\ pc[p] = "idle"
  /\ IF DispatchAllowed(c.name)
     THEN /\ pc' = [pc EXCEPT ![p] = "exec"]
          /\ cmd' = [cmd EXCEPT ![p] = c]
          /\ UNCHANGED sv
     ELSE /\ pc' = [pc EXCEPT ![p] = "ret"]
          /\ cmd' = [cmd EXCEPT ![p] = c]
          /\ sv' = [sv EXCEPT ![p].reply = <<"ERR", "Can not execute during LOADING">>]
  /\ UNCHANGED <<global_state, clock, last_save_info_, is_saving_, load_pc, confVars, roleVars,
                 txq, hop, db, cut, file, hop_db, parseVars, schedVars, replicaVars>>

(* -------------------------------- DoSave ------------------------------ *)

\* DoSave's test of the state SwitchState returned
GatePassed(new_state) == new_state = "SAVING"

\* DoSave returning from its locals l: the Save handler's reply is built from
\* ec and err_details
Returned(l) ==
  [NoSave EXCEPT !.ec = l.ec, !.err_details = l.err_details,
                 !.reply = IF l.ec = OK THEN <<"OK">> ELSE <<"ERR", l.err_details, l.ec>>]

\* DoSave from its entry to the state gate: CreateDirs unless --dir is
\* empty, then SwitchState
DoSaveEnter(p, new_version) ==
  \E dir_ec \in DirOutcomes :
    IF dir # NoDir /\ dir_ec # OK
    THEN /\ sv' = [sv EXCEPT ![p] = Returned([NoSave EXCEPT !.new_version = new_version,
                                   !.ec = dir_ec, !.err_details = "create-dir "])]
         /\ pc' = [pc EXCEPT ![p] = "ret"]
         /\ UNCHANGED global_state
    ELSE LET new_state == SwitchState("ACTIVE", "SAVING") IN
         /\ global_state' = new_state
         /\ IF GatePassed(new_state)
            THEN /\ sv' = [sv EXCEPT ![p] = [NoSave EXCEPT !.new_version = new_version]]
                 /\ pc' = [pc EXCEPT ![p] = "start"]
            ELSE /\ sv' = [sv EXCEPT ![p] = Returned([NoSave EXCEPT
                           !.new_version = new_version,
                           !.ec = E_IN_PROGRESS,
                           !.err_details = GlobalStateName(new_state) \o " - can not save database"])]
                 /\ pc' = [pc EXCEPT ![p] = "ret"]

\* ServerFamily::Save: the SAVE / BGSAVE handler up to DoSave's gate
Save(p) ==
  /\ Ready
  /\ pc[p] = "exec"
  /\ cmd[p].name \in {"SAVE", "BGSAVE"}
  /\ LET args == cmd[p].args IN
     IF Len(args) > 2
     THEN /\ sv' = [sv EXCEPT ![p].reply = <<"ERR", "syntax error">>]
          /\ pc' = [pc EXCEPT ![p] = "ret"]
          /\ UNCHANGED global_state
     ELSE IF Len(args) = 2 /\ ToUpper(args[2]) # "DF"
     THEN /\ sv' = [sv EXCEPT ![p].reply = <<"ERR", "unknown subcommand", ToUpper(args[2])>>]
          /\ pc' = [pc EXCEPT ![p] = "ret"]
          /\ UNCHANGED global_state
     ELSE DoSaveEnter(p, Len(args) = 2)
  /\ UNCHANGED <<clock, last_save_info_, is_saving_, load_pc, confVars, roleVars, cmd,
                 txq, hop, db, cut, file, hop_db, parseVars, schedVars, replicaVars>>

\* DoSave after the gate: the timestamp is taken; the new version schedules
\* its single hop, the legacy version issues the open of its one file
DoSaveStart(p) ==
  /\ Ready
  /\ pc[p] = "start"
  /\ sv' = [sv EXCEPT ![p].now = clock]
  /\ IF sv[p].new_version
     THEN /\ txq' = Schedule(p, cmd[p])
          /\ hop' = [hop EXCEPT ![p] = [armed |-> TRUE, ran |-> {}]]
          /\ pc' = [pc EXCEPT ![p] = "hop"]
     ELSE /\ pc' = [pc EXCEPT ![p] = "open"]
          /\ UNCHANGED <<txq, hop>>
  /\ UNCHANGED <<global_state, clock, last_save_info_, is_saving_, load_pc, confVars, roleVars,
                 cmd, db, cut, file, hop_db, parseVars, schedVars, replicaVars>>

\* legacy DoSave: OpenLinux and RdbSnapshot::Start (the header). An open error
\* returns at once, a header error skips the hop
DoSaveOpenLegacy(p) ==
  /\ Ready
  /\ pc[p] = "open"
  /\ \E res \in OpenOutcomes :
       CASE res = E_OPEN ->
              /\ sv' = [sv EXCEPT ![p].ec = E_OPEN]
              /\ pc' = [pc EXCEPT ![p] = "restore"]
              /\ UNCHANGED <<txq, hop, is_saving_>>
         [] res = E_HEADER ->
              /\ sv' = [sv EXCEPT ![p].ec = E_HEADER, ![p].snapshots[0] = "open",
                                  ![p].paths[0] = OpenPath(sv[p].now, -1)]
              /\ pc' = [pc EXCEPT ![p] = "body"]
              /\ is_saving_' = TRUE
              /\ UNCHANGED <<txq, hop>>
         [] OTHER ->
              /\ sv' = [sv EXCEPT ![p].snapshots[0] = "open",
                                  ![p].paths[0] = OpenPath(sv[p].now, -1)]
              /\ txq' = Schedule(p, cmd[p])
              /\ hop' = [hop EXCEPT ![p] = [armed |-> TRUE, ran |-> {}]]
              /\ pc' = [pc EXCEPT ![p] = "hop"]
              /\ UNCHANGED is_saving_
  /\ UNCHANGED <<global_state, clock, last_save_info_, load_pc, confVars, roleVars,
                 cmd, db, cut, file, hop_db, parseVars, schedVars, replicaVars>>

\* a hop callback whose legacy branch binds the saver to the first shard only
SaveHopCbFirstShard(p, s, res) ==
  IF sv[p].new_version
  THEN CASE res = E_OPEN ->
              /\ sv' = [sv EXCEPT ![p].ec = UpdateError(E_OPEN, @)]
              /\ UNCHANGED cut
         [] res = E_HEADER ->
              /\ sv' = [sv EXCEPT ![p].ec = UpdateError(E_HEADER, @),
                                  ![p].snapshots[s] = "open",
                                  ![p].paths[s] = OpenPath(sv[p].now, s)]
              /\ UNCHANGED cut
         [] OTHER ->
              /\ sv' = [sv EXCEPT ![p].snapshots[s] = "started",
                                  ![p].paths[s] = OpenPath(sv[p].now, s)]
              /\ cut' = [cut EXCEPT ![p][s] = <<db[s]>>]
  ELSE /\ sv' = [sv EXCEPT ![p].snapshots[0] = "started"]
       /\ cut' = [cut EXCEPT ![p][s] = IF s = 0 THEN <<db[s]>> ELSE @]

\* the callback of DoSave's hop on shard s; res is what the file system
\* answers to the shard's open and header (new version only). StartInShard
\* captures the shard's content within the hop
SaveHopCb(p, s, res) ==
  IF sv[p].new_version
  THEN CASE res = E_OPEN ->
              /\ sv' = [sv EXCEPT ![p].ec = UpdateError(E_OPEN, @)]
              /\ UNCHANGED cut
         [] res = E_HEADER ->
              /\ sv' = [sv EXCEPT ![p].ec = UpdateError(E_HEADER, @),
                                  ![p].snapshots[s] = "open",
                                  ![p].paths[s] = OpenPath(sv[p].now, s)]
              /\ UNCHANGED cut
         [] OTHER ->
              /\ sv' = [sv EXCEPT ![p].snapshots[s] = "started",
                                  ![p].paths[s] = OpenPath(sv[p].now, s)]
              /\ cut' = [cut EXCEPT ![p][s] = <<db[s]>>]
  ELSE /\ sv' = [sv EXCEPT ![p].snapshots[0] = "started"]
       /\ cut' = [cut EXCEPT ![p][s] = <<db[s]>>]

\* ScheduleSingleHop returned: is_saving_ is set and the body stage begins
DoSaveHopDone(p) ==
  /\ Ready
  /\ pc[p] = "hop"
  /\ hop[p].ran = TxShards(cmd[p])
  /\ hop' = [hop EXCEPT ![p] = NoHop]
  /\ is_saving_' = TRUE
  /\ pc' = [pc EXCEPT ![p] = "body"]
  /\ UNCHANGED <<global_state, clock, last_save_info_, load_pc, confVars, roleVars, cmd,
                 sv, txq, db, cut, file, hop_db, parseVars, schedVars, replicaVars>>

\* the shards whose content the saver of index i holds: the new version's
\* saver holds one shard, the legacy saver all of them
SaverShards(new_version, i) == IF new_version THEN {i} ELSE ShardIds

\* what SaveBody writes for index i: the captured content of its shards
BodyOf(p, i) ==
  [s \in ShardIds |-> IF s \in SaverShards(sv[p].new_version, i) THEN cut[p][s]
                      ELSE file[p][s]]

\* the index whose callback a stage of caller p runs next. The callbacks of a
\* stage run in parallel, one per shard thread; each touches its own saver
\* and, under the mutex, adds the same error code to ec, so their order among
\* themselves changes nothing and they are taken in index order
NextIndex(p) ==
  LET left == RunStage(sv[p].new_version) \ sv[p].stage
  IN {i \in left : \A j \in left : i <= j}

\* save_cb(index) of the body stage
SaveCb(p, i) ==
  /\ Ready
  /\ pc[p] = "body"
  /\ i \in NextIndex(p)
  /\ IF sv[p].snapshots[i] = "started"
     THEN \E local_ec \in BodyOutcomes :
            /\ sv' = [sv EXCEPT ![p].stage = @ \cup {i},
                                ![p].ec = IF local_ec # OK THEN UpdateError(local_ec, @) ELSE @]
            /\ file' = [file EXCEPT ![p] = IF local_ec = OK THEN BodyOf(p, i) ELSE @]
     ELSE /\ sv' = [sv EXCEPT ![p].stage = @ \cup {i}]
          /\ UNCHANGED file
  /\ UNCHANGED <<global_state, clock, last_save_info_, is_saving_, load_pc, confVars, roleVars,
                 pc, cmd, txq, hop, db, cut, hop_db, parseVars, schedVars, replicaVars>>

\* the body stage is over: is_saving_ is cleared and the close stage begins
DoSaveBodyDone(p) ==
  /\ Ready
  /\ pc[p] = "body"
  /\ sv[p].stage = RunStage(sv[p].new_version)
  /\ is_saving_' = FALSE
  /\ sv' = [sv EXCEPT ![p].stage = {}]
  /\ pc' = [pc EXCEPT ![p] = "close"]
  /\ UNCHANGED <<global_state, clock, last_save_info_, load_pc, confVars, roleVars, cmd,
                 txq, hop, db, cut, file, hop_db, parseVars, schedVars, replicaVars>>

\* a close stage that closes only the snapshots that were started
ClosesStarted(snapshot) == snapshot = "started"

\* close_cb's test: if (snapshot)
Closes(snapshot) == snapshot # "null"

\* close_cb(index) of the close stage
CloseCb(p, i) ==
  /\ Ready
  /\ pc[p] = "close"
  /\ i \in NextIndex(p)
  /\ IF Closes(sv[p].snapshots[i])
     THEN \E local_ec \in CloseOutcomes :
            sv' = [sv EXCEPT ![p].stage = @ \cup {i},
                             ![p].snapshots[i] = "closed",
                             ![p].ec = UpdateError(local_ec, @)]
     ELSE sv' = [sv EXCEPT ![p].stage = @ \cup {i}]
  /\ UNCHANGED <<global_state, clock, last_save_info_, is_saving_, load_pc, confVars, roleVars,
                 pc, cmd, txq, hop, db, cut, file, hop_db, parseVars, schedVars, replicaVars>>

\* whether DoSave publishes a new LastSaveInfo
Publishes(ec) == ec = OK

\* the end of DoSave: LastSaveInfo is published when no error was met
DoSaveFinish(p) ==
  /\ Ready
  /\ pc[p] = "close"
  /\ sv[p].stage = RunStage(sv[p].new_version)
  /\ last_save_info_' =
       IF Publishes(sv[p].ec)
       THEN [save_time |-> sv[p].now, file_name |-> SavePath(sv[p].new_version, sv[p].now)]
       ELSE last_save_info_
  /\ saved_minutes' =
       IF sv[p].ec = OK THEN saved_minutes \cup {sv[p].now \div 60} ELSE saved_minutes
  /\ sv' = [sv EXCEPT ![p].stage = {}]
  /\ pc' = [pc EXCEPT ![p] = "restore"]
  /\ UNCHANGED <<global_state, clock, is_saving_, load_pc, confVars, roleVars, cmd,
                 txq, hop, db, cut, file, hop_db, parseVars,
                 sched_now, sched_wait, is_snapshot_done_, shutdown_pc, sched_failed,
                 replicaVars>>

\* a DoSave without the scoped guard
RevStateMissing == global_state

\* the scoped guard rev_state, run when DoSave returns past the gate
RevState == SwitchState("SAVING", "ACTIVE")

DoSaveReturn(p) ==
  /\ Ready
  /\ pc[p] = "restore"
  /\ global_state' = RevState
  /\ sv' = [sv EXCEPT ![p] = Returned(@)]
  /\ pc' = [pc EXCEPT ![p] = "ret"]
  /\ UNCHANGED <<clock, last_save_info_, is_saving_, load_pc, confVars, roleVars, cmd,
                 txq, hop, db, cut, file, hop_db, parseVars, schedVars, replicaVars>>

(* ------------------------------- DoFlush ------------------------------ *)

\* a flush callback that wipes the first shard only
FlushCbFirstShard(s) == IF s = 0 THEN {} ELSE db[s]

\* the callback DoFlush executes on shard s: db_slice().FlushDb
FlushCb(s) == {}

\* DoFlush up to the return of transaction->Schedule()
DoFlushSchedule(p) ==
  /\ txq' = Schedule(p, cmd[p])
  /\ pc' = [pc EXCEPT ![p] = "flush_sched"]
  /\ UNCHANGED sv

\* ServerFamily::FlushAll
FlushAll(p) ==
  /\ Ready
  /\ pc[p] = "exec"
  /\ cmd[p].name = "FLUSHALL"
  /\ IF Len(cmd[p].args) > 1
     THEN /\ sv' = [sv EXCEPT ![p].reply = <<"ERR", "syntax error">>]
          /\ pc' = [pc EXCEPT ![p] = "ret"]
          /\ UNCHANGED txq
     ELSE DoFlushSchedule(p)
  /\ UNCHANGED <<global_state, clock, last_save_info_, is_saving_, load_pc, confVars, roleVars,
                 cmd, hop, db, cut, file, hop_db, parseVars, schedVars, replicaVars>>

\* ServerFamily::FlushDb
FlushDb(p) ==
  /\ Ready
  /\ pc[p] = "exec"
  /\ cmd[p].name = "FLUSHDB"
  /\ DoFlushSchedule(p)
  /\ UNCHANGED <<global_state, clock, last_save_info_, is_saving_, load_pc, confVars, roleVars,
                 cmd, hop, db, cut, file, hop_db, parseVars, schedVars, replicaVars>>

\* DoFlush: transaction->Execute(cb, true) hands the callback to the shards
DoFlushExecute(p) ==
  /\ Ready
  /\ pc[p] = "flush_sched"
  /\ hop' = [hop EXCEPT ![p] = [armed |-> TRUE, ran |-> {}]]
  /\ pc' = [pc EXCEPT ![p] = "flush_exec"]
  /\ UNCHANGED <<global_state, clock, last_save_info_, is_saving_, load_pc, confVars, roleVars,
                 cmd, sv, txq, db, cut, file, hop_db, parseVars, schedVars, replicaVars>>

\* Execute returned on every shard: DoFlush returns and the handler sends OK
DoFlushDone(p) ==
  /\ Ready
  /\ pc[p] = "flush_exec"
  /\ hop[p].ran = TxShards(cmd[p])
  /\ hop' = [hop EXCEPT ![p] = NoHop]
  /\ sv' = [sv EXCEPT ![p].reply = <<"OK">>]
  /\ pc' = [pc EXCEPT ![p] = "ret"]
  /\ UNCHANGED <<global_state, clock, last_save_info_, is_saving_, load_pc, confVars, roleVars,
                 cmd, txq, db, cut, file, hop_db, parseVars, schedVars, replicaVars>>

(* ------------------------- the shard threads -------------------------- *)

\* a REPLICAOF that leaves the databases as they are
ReplicaOfFlushCbKeeps(s) == db[s]

\* the callback of ReplicaOf's transaction: db_slice().FlushDb(kDbAll)
ReplicaOfFlushCb(s) == {}

\* the token a write of caller p leaves on each shard owning its keys
Token(p) == <<p, cmd[p].keys>>

\* the callback the transaction of caller p runs on shard s
HopCb(p, s, res) ==
  CASE cmd[p].name \in {"SAVE", "BGSAVE"} ->
         /\ SaveHopCb(p, s, res)
         /\ UNCHANGED db
    [] cmd[p].name \in {"FLUSHALL", "FLUSHDB"} ->
         /\ db' = [db EXCEPT ![s] = FlushCb(s)]
         /\ UNCHANGED <<sv, cut>>
    [] cmd[p].name \in {"REPLICAOF", "SLAVEOF"} ->
         /\ db' = [db EXCEPT ![s] = ReplicaOfFlushCb(s)]
         /\ UNCHANGED <<sv, cut>>
    [] OTHER ->
         /\ db' = [db EXCEPT ![s] = @ \cup {Token(p)}]
         /\ UNCHANGED <<sv, cut>>

\* a shard runs the hop of the transaction at the head of its queue
ShardRunHop(s) ==
  /\ Ready
  /\ txq[s] # <<>>
  /\ LET p == Head(txq[s]) IN
       /\ hop[p].armed
       /\ txq' = [txq EXCEPT ![s] = Tail(@)]
       /\ hop' = [hop EXCEPT ![p].ran = @ \cup {s}]
       /\ hop_db' = [hop_db EXCEPT ![p][s] = <<db[s]>>]
       /\ \E res \in OpenOutcomes : HopCb(p, s, res)
  /\ UNCHANGED <<global_state, clock, last_save_info_, is_saving_, load_pc, confVars, roleVars,
                 pc, cmd, file, parseVars, schedVars, replicaVars>>

(* --------------------------- other handlers --------------------------- *)

\* ServerFamily::LastSave
LastSave(p) ==
  /\ Ready
  /\ pc[p] = "exec"
  /\ cmd[p].name = "LASTSAVE"
  /\ sv' = [sv EXCEPT ![p].reply = <<last_save_info_.save_time>>]
  /\ pc' = [pc EXCEPT ![p] = "ret"]
  /\ UNCHANGED <<global_state, clock, last_save_info_, is_saving_, load_pc, confVars, roleVars,
                 cmd, txq, hop, db, cut, file, hop_db, parseVars, schedVars, replicaVars>>

\* a write of another family: it schedules a single hop on the shards owning
\* its keys
Write(p) ==
  /\ Ready
  /\ pc[p] = "exec"
  /\ cmd[p].name = "MSET"
  /\ txq' = Schedule(p, cmd[p])
  /\ hop' = [hop EXCEPT ![p] = [armed |-> TRUE, ran |-> {}]]
  /\ pc' = [pc EXCEPT ![p] = "write"]
  /\ UNCHANGED <<global_state, clock, last_save_info_, is_saving_, load_pc, confVars, roleVars,
                 cmd, sv, db, cut, file, hop_db, parseVars, schedVars, replicaVars>>

WriteDone(p) ==
  /\ Ready
  /\ pc[p] = "write"
  /\ hop[p].ran = TxShards(cmd[p])
  /\ hop' = [hop EXCEPT ![p] = NoHop]
  /\ sv' = [sv EXCEPT ![p].reply = <<"OK">>]
  /\ pc' = [pc EXCEPT ![p] = "ret"]
  /\ UNCHANGED <<global_state, clock, last_save_info_, is_saving_, load_pc, confVars, roleVars,
                 cmd, txq, db, cut, file, hop_db, parseVars, schedVars, replicaVars>>

\* the commands whose handlers are followed step by step where they are run
Modelled == {"SAVE", "BGSAVE", "LASTSAVE", "FLUSHALL", "FLUSHDB", "MSET"}

\* the handler of any other registered command, taken as a whole: it replies
Handle(p) ==
  /\ Ready
  /\ pc[p] = "exec"
  /\ cmd[p].name \notin Modelled
  /\ sv' = [sv EXCEPT ![p].reply = <<"reply", cmd[p].name>>]
  /\ pc' = [pc EXCEPT ![p] = "ret"]
  /\ UNCHANGED <<global_state, clock, last_save_info_, is_saving_, load_pc, confVars, roleVars,
                 cmd, txq, hop, db, cut, file, hop_db, parseVars, schedVars, replicaVars>>

\* the reply was sent: the connection is ready for its next command, and the
\* scheduler, which logs a failed DoSave, is back at the top of its loop
Done(p) ==
  /\ pc[p] = "ret"
  /\ pc' = [pc EXCEPT ![p] = "idle"]
  /\ cmd' = [cmd EXCEPT ![p] = NoCmd]
  /\ sv' = [sv EXCEPT ![p] = NoSave]
  /\ cut' = [cut EXCEPT ![p] = NoCut]
  /\ file' = [file EXCEPT ![p] = NoCut]
  /\ hop_db' = [hop_db EXCEPT ![p] = NoCut]
  /\ sched_now' = IF p = Sched THEN 0 ELSE sched_now
  /\ sched_wait' = IF p = Sched THEN clock ELSE sched_wait
  /\ sched_failed' =
       IF p = Sched /\ sv[p].ec # OK THEN sched_failed \cup {sched_now \div 60}
       ELSE sched_failed
  /\ UNCHANGED <<global_state, clock, last_save_info_, is_saving_, load_pc, confVars, roleVars,
                 txq, hop, db, parseVars, is_snapshot_done_, shutdown_pc, saved_minutes,
                 replicaVars>>

(* ------------------------ the snapshot scheduler ---------------------- *)

\* whether the scheduler goes on to save at `now`, the last save being
\* last_save: without the test of the last save's minute
ShouldSaveAnyMinute(spec, now, last_save) == DoesTimeMatchSpecifier(spec, now)

\* whether the scheduler goes on to save at `now`, the last save being
\* last_save: the time matches the spec and the last save was in another
\* minute
ShouldSave(spec, now, last_save) ==
  /\ DoesTimeMatchSpecifier(spec, now)
  /\ (last_save \div 60) # (now \div 60)

\* one iteration of SnapshotScheduling that reaches the save: WaitFor timed
\* out, the 20 seconds over and the notification not fired, and the time is
\* one to save at. An iteration that does not save changes nothing: it is
\* not a step, and the iteration that saves is any later one
SnapshotSchedulingTick ==
  /\ Ready
  /\ Serving
  /\ save_spec # nullopt
  /\ pc[Sched] = "idle"
  /\ ~is_snapshot_done_
  /\ clock >= sched_wait + ClockStep
  /\ LET now == clock IN
       /\ ShouldSave(save_spec, now, last_save_info_.save_time)
       /\ sched_now' = now
       /\ cmd' = [cmd EXCEPT ![Sched] = [name |-> "SAVE", args |-> <<>>, keys |-> {}]]
  /\ pc' = [pc EXCEPT ![Sched] = "exec"]
  /\ UNCHANGED <<global_state, clock, last_save_info_, is_saving_, load_pc, confVars, roleVars,
                 sv, txq, hop, db, cut, file, hop_db, parseVars, sched_wait,
                 is_snapshot_done_, shutdown_pc, saved_minutes, sched_failed, replicaVars>>

\* WaitFor returns true, the notification fired: the scheduler leaves its loop
SnapshotSchedulingExit ==
  /\ Ready
  /\ Serving
  /\ save_spec # nullopt
  /\ pc[Sched] = "idle"
  /\ is_snapshot_done_
  /\ pc' = [pc EXCEPT ![Sched] = "exited"]
  /\ UNCHANGED <<global_state, clock, last_save_info_, is_saving_, load_pc, confVars, roleVars,
                 cmd, sv, txq, hop, db, cut, file, hop_db, parseVars, schedVars, replicaVars>>

\* the scheduler's call DoSave(false, trans, &err_details)
SnapshotSchedulingSave ==
  /\ Ready
  /\ pc[Sched] = "exec"
  /\ DoSaveEnter(Sched, FALSE)
  /\ UNCHANGED <<clock, last_save_info_, is_saving_, load_pc, confVars, roleVars, cmd,
                 txq, hop, db, cut, file, hop_db, parseVars, schedVars, replicaVars>>

(* ------------------------------ Shutdown ------------------------------ *)

\* Shutdown is called and joins the load fiber
ShutdownJoinLoad ==
  /\ Ready
  /\ Serving
  /\ shutdown_pc = "none"
  /\ load_pc # "loading"
  /\ shutdown_pc' = "notify"
  /\ UNCHANGED <<global_state, clock, last_save_info_, is_saving_, load_pc, confVars, roleVars,
                 pc, cmd, sv, txq, hop, db, cut, file, hop_db, parseVars,
                 sched_now, sched_wait, is_snapshot_done_, saved_minutes, sched_failed,
                 replicaVars>>

\* Shutdown fires the done-notification
ShutdownNotify ==
  /\ Ready
  /\ shutdown_pc = "notify"
  /\ is_snapshot_done_' = TRUE
  /\ shutdown_pc' = "join"
  /\ UNCHANGED <<global_state, clock, last_save_info_, is_saving_, load_pc, confVars, roleVars,
                 pc, cmd, sv, txq, hop, db, cut, file, hop_db, parseVars,
                 sched_now, sched_wait, saved_minutes, sched_failed, replicaVars>>

\* whether snapshot_fiber_.join() returns at once: the fiber is joined
\* whether or not it ended
JoinsWithoutWaiting == TRUE

\* whether snapshot_fiber_.join() returns: no fiber was launched, or the
\* fiber ended
Joins == save_spec = nullopt \/ pc[Sched] = "exited"

\* Shutdown's join on the snapshot fiber returns
ShutdownJoin ==
  /\ Ready
  /\ shutdown_pc = "join"
  /\ Joins
  /\ shutdown_pc' = "done"
  /\ UNCHANGED <<global_state, clock, last_save_info_, is_saving_, load_pc, confVars, roleVars,
                 pc, cmd, sv, txq, hop, db, cut, file, hop_db, parseVars,
                 sched_now, sched_wait, is_snapshot_done_, saved_minutes, sched_failed,
                 replicaVars>>

(* -------------------------------- clock ------------------------------- *)

Tick ==
  /\ Ready
  /\ clock < StartClock + MaxTicks * ClockStep
  /\ clock' = clock + ClockStep
  /\ UNCHANGED <<global_state, last_save_info_, is_saving_, load_pc, confVars, roleVars,
                 pc, cmd, sv, txq, hop, db, cut, file, hop_db, parseVars, schedVars, replicaVars>>

(* ----------------------- the schedule functions ----------------------- *)

\* the characters of the strings handed to ParseSaveSchedule, and their
\* largest length
InputChars == {"*", "0", "2", "3", "5", "6", ":", "a"}
MaxLen == 5
Inputs == UNION {[1 .. k -> InputChars] : k \in 0 .. MaxLen}

\* the times handed to DoesTimeMatchSpecifier: every hour of the second day
\* of the epoch, at these minutes, 7 seconds into the minute
Minutes == {0, 2, 3, 5, 20, 23, 32, 35, 50, 52, 56, 59}
Times == {86400 + h * 3600 + m * 60 + 7 : h \in 0 .. 23, m \in Minutes}

\* ServerFamily::Init parsing the flag
ParseFlag ==
  /\ ~parse_result.called
  /\ parse_result' = [called |-> TRUE, value |-> ParseSaveSchedule(time_arg)]
  /\ UNCHANGED <<global_state, clock, last_save_info_, is_saving_, load_pc, confVars, roleVars,
                 pc, cmd, sv, txq, hop, db, cut, file, hop_db, time_arg, match,
                 schedVars, replicaVars>>

\* SnapshotScheduling testing a time against the parsed spec
MatchTime ==
  /\ parse_result.called
  /\ parse_result.value # nullopt
  /\ ~match.called
  /\ \E now \in Times :
       match' = [called |-> TRUE, now |-> now,
                 result |-> DoesTimeMatchSpecifier(parse_result.value, now)]
  /\ UNCHANGED <<global_state, clock, last_save_info_, is_saving_, load_pc, confVars, roleVars,
                 pc, cmd, sv, txq, hop, db, cut, file, hop_db, time_arg, parse_result,
                 schedVars, replicaVars>>

(* ----------------------------- the replica: Greet --------------------- *)

\* the flags of Replica::state_mask_
R_ENABLED == "R_ENABLED"
R_TCP_CONNECTED == "R_TCP_CONNECTED"
R_GREETED == "R_GREETED"
R_SYNCING == "R_SYNCING"
R_SYNC_OK == "R_SYNC_OK"

\* error codes of the replica
bad_message == "bad_message"
illegal_byte_sequence == "illegal_byte_sequence"
host_unreachable == "host_unreachable"
connection_reset == "connection_reset"

CONFIG_RUN_ID_SIZE == 40
kRdbEofMarkSize == 40
MaxFlowCount == 1024

\* RespExpr values: a string, an integer, an error
StringExpr(s) == [type |-> "STRING", buf |-> s, u |-> 0]
Int64Expr(n) == [type |-> "INT64", buf |-> <<>>, u |-> n]
ErrorExpr(s) == [type |-> "ERROR", buf |-> s, u |-> 0]

PONG == <<"P", "O", "N", "G">>
OKSTR == <<"O", "K">>

\* the commands the replica sends
PING == <<"PING">>
REPLCONF_CAPA_EOF == <<"REPLCONF", "capa", "eof", "capa", "psync2">>
REPLCONF_CAPA_DRAGONFLY == <<"REPLCONF", "capa", "dragonfly">>

\* one exchange with the master, as the replica sees it: the error of the
\* send or of ReadRespReply, or the parsed reply resp_args_ (never empty)
Reply(args) == [ec |-> OK, resp_args |-> args]
Failed(ec) == [ec |-> ec, resp_args |-> <<>>]

\* the test Greet applies to the replies to PING and to the first REPLCONF
IsSingleString(resp_args, s) ==
  /\ Len(resp_args) = 1
  /\ resp_args[1].type = "STRING"
  /\ resp_args[1].buf = s

\* a flow-count test that accepts every count
ValidFlowCountAny(param2) == TRUE

\* Greet's sanity check of the flow count
ValidFlowCount(param2) == ~(param2 <= 0 \/ param2 > MaxFlowCount)

\* what Greet returns and leaves behind when it fails with ec, having sent
\* the commands cmds
GreetFailed(ctx, flows, ec, cmds) ==
  [ec |-> ec, master_context_ |-> ctx, num_df_flows_ |-> flows,
   greeted |-> FALSE, sent |-> cmds]

\* Greet's handling of the reply to 'REPLCONF capa dragonfly'
GreetCapaDragonfly(ctx, flows, resp_args, cmds) ==
  IF resp_args[1].type # "STRING" THEN GreetFailed(ctx, flows, bad_message, cmds)
  ELSE IF Len(resp_args) = 1
  THEN IF resp_args[1].buf # OKSTR
       THEN GreetFailed(ctx, flows, bad_message, cmds)
       ELSE [ec |-> OK, master_context_ |-> ctx, num_df_flows_ |-> flows,
             greeted |-> TRUE, sent |-> cmds]
  ELSE IF Len(resp_args) = 3
  THEN IF \/ resp_args[1].type # "STRING"
          \/ resp_args[2].type # "STRING"
          \/ resp_args[3].type # "INT64"
          \/ Len(resp_args[1].buf) # CONFIG_RUN_ID_SIZE
       THEN GreetFailed(ctx, flows, bad_message, cmds)
       ELSE LET param0 == resp_args[1].buf
                param1 == resp_args[2].buf
                param2 == resp_args[3].u
            IN IF ~ValidFlowCount(param2)
               THEN GreetFailed(ctx, flows, bad_message, cmds)
               ELSE [ec |-> OK,
                     master_context_ |-> [ctx EXCEPT !.master_repl_id = param0,
                                                     !.dfly_session_id = param1],
                     num_df_flows_ |-> param2,
                     greeted |-> TRUE, sent |-> cmds]
  ELSE GreetFailed(ctx, flows, bad_message, cmds)

\* Replica::Greet on the exchanges x (as many as Greet gets to), from the
\* master context ctx and flow count `flows`: the error code, the fields it
\* leaves, whether it set R_GREETED, and the commands it sent, in order
Greet(ctx, flows, x) ==
  LET sent1 == <<PING>>
      sent2 == <<PING, REPLCONF_CAPA_EOF>>
      sent3 == <<PING, REPLCONF_CAPA_EOF, REPLCONF_CAPA_DRAGONFLY>>
  IN IF x[1].ec # OK THEN GreetFailed(ctx, flows, x[1].ec, sent1)
     ELSE IF ~IsSingleString(x[1].resp_args, PONG)
     THEN GreetFailed(ctx, flows, bad_message, sent1)
     ELSE IF x[2].ec # OK THEN GreetFailed(ctx, flows, x[2].ec, sent2)
     ELSE IF ~IsSingleString(x[2].resp_args, OKSTR)
     THEN GreetFailed(ctx, flows, bad_message, sent2)
     ELSE IF x[3].ec # OK THEN GreetFailed(ctx, flows, x[3].ec, sent3)
     ELSE GreetCapaDragonfly(ctx, flows, x[3].resp_args, sent3)

(* ------------------------- the replica: InitiatePSync ----------------- *)

\* a CHECK failed: the process aborts
ABORTED == "aborted"

\* PSyncResponse::fullsync: the EOF token of a diskless sync, or the size of
\* a disk-based one (0: no full sync)
FullsyncToken(token) == [kind |-> "token", token |-> token, size |-> 0]
FullsyncSize(size) == [kind |-> "size", token |-> <<>>, size |-> size]

\* Replica::ParseReplicationHeader on the header h the master sent: ec1 and
\* line1 are the outcome and the kind of the first line ('+FULLRESYNC <id>
\* <offs>', '+CONTINUE', another line that starts with '+', or one that is
\* refused: no '+', or FULLRESYNC without an offset), ec2 and line2 those of
\* the second ('$EOF:<token>', '$<size>', a '$' with no number, no '$').
\* After a '+' line that is neither FULLRESYNC nor CONTINUE no branch is
\* taken and the function returns success with *dest as InitiatePSync
\* constructed it (h.dest)
ParseReplicationHeader(h) ==
  IF h.ec1 # OK THEN [ec |-> h.ec1, fullsync |-> FullsyncSize(0), resync |-> FALSE]
  ELSE IF h.line1 = "CONTINUE" THEN [ec |-> OK, fullsync |-> FullsyncSize(0), resync |-> FALSE]
  ELSE IF h.line1 = "PLUS" THEN [ec |-> OK, fullsync |-> h.dest, resync |-> FALSE]
  ELSE IF h.line1 # "FULLRESYNC"
  THEN [ec |-> illegal_byte_sequence, fullsync |-> FullsyncSize(0), resync |-> FALSE]
  ELSE IF h.ec2 # OK THEN [ec |-> h.ec2, fullsync |-> FullsyncSize(0), resync |-> TRUE]
  ELSE IF h.line2 = "EOF"
  THEN IF Len(h.token) # kRdbEofMarkSize
       THEN [ec |-> ABORTED, fullsync |-> FullsyncSize(0), resync |-> TRUE]
       ELSE [ec |-> OK, fullsync |-> FullsyncToken(h.token), resync |-> TRUE]
  ELSE IF h.line2 = "SIZE" THEN [ec |-> OK, fullsync |-> FullsyncSize(h.size), resync |-> TRUE]
  ELSE [ec |-> illegal_byte_sequence, fullsync |-> FullsyncSize(0), resync |-> TRUE]

\* InitiatePSync's test for a full sync: snapshot_size || eof_token != nullptr
IsFullSync(fullsync) == fullsync.kind = "token" \/ fullsync.size # 0

\* an end-of-stream test that does not compare the token
EofTokenMatchesAny(token, buf) == TRUE

\* CHECK_EQ(0, memcmp(eof_token->data(), buf, kRdbEofMarkSize))
EofTokenMatches(token, buf) == token = buf

\* InitiatePSync after loader.Load returned: l.ec is Load's error,
\* l.bytes_read what the loader consumed, l.leftover what it had buffered
\* beyond that, l.rest what the socket delivers after it, l.prefix_unused
\* whether bytes read with the header were never handed to the loader.
\* Returns OK, Load's error, or ABORTED
FullSyncEnd(fullsync, l) ==
  IF l.ec # OK THEN l.ec
  ELSE IF fullsync.kind = "token"
  THEN LET data == l.leftover \o l.rest
       IN IF Len(data) < kRdbEofMarkSize THEN ABORTED
          ELSE IF ~EofTokenMatches(fullsync.token, SubSeq(data, 1, kRdbEofMarkSize)) THEN ABORTED
          ELSE IF Len(l.leftover) > kRdbEofMarkSize THEN ABORTED
          ELSE IF l.prefix_unused THEN ABORTED
          ELSE OK
  ELSE IF Len(l.leftover) # 0 THEN ABORTED
  ELSE IF fullsync.size # l.bytes_read THEN ABORTED
  ELSE IF l.prefix_unused THEN ABORTED
  ELSE OK

(* --------------------- the replica: the supervisor fiber -------------- *)

\* the largest replication offset of a run
MaxOffs == 2600

\* Replica::ack_offs_: replica.cc reads it and never assigns it
ack_offs_ == 0

NoContext == [master_repl_id |-> <<>>, dfly_session_id |-> <<>>]

\* the call the fiber is suspended in has not completed
Pending == [done |-> FALSE, res |-> <<>>]

\* the end of a flow's stream as ReplicateDFFb meets it: ec is the result of
\* loader.Load, tail what follows the snapshot where the EOF token is
\* expected (the token, other bytes, fewer bytes than the token has)
FlowEnd(ec, tail) == [ec |-> ec, tail |-> tail]
NotLoaded == FlowEnd(OK, "none")
FlowBroken == FlowEnd(connection_reset, "short")
FlowEnds == {FlowEnd(OK, "token"), FlowEnd(OK, "other"), FlowBroken}

\* a flow Replica as InitiateDflySync creates it (thread: the thread that
\* called its StartFlow, starts: history, how often StartFlow was called, fb:
\* its fiber sync_fb_, none, load while ReplicateDFFb runs, done), and the mark
\* of a thread that broke out of its loop over its flows
NewFlow == [thread |-> -1, sock_ |-> "null", sent |-> <<>>, state_mask_ |-> {}, ec |-> OK,
            starts |-> 0, fb |-> "none", eof_token |-> <<>>, loaded |-> NotLoaded]
Broke == -1

\* everything but the replica
serverVars == <<global_state, clock, last_save_info_, is_saving_, load_pc, confVars, roleVars,
                pc, cmd, sv, txq, hop, db, cut, file, hop_db, parseVars, schedVars>>

\* the replica exists: Run returned true and the process did not abort
Running == fb \notin {"none", "run_failed", ABORTED}

\* the master is a native one: Greet stored a session id
IsDfly(ctx) == ctx.dfly_session_id # <<>>

\* where ReplicateRedisFb suspends next, from the tests of its loop
StreamTest(ctx) == IF IsDfly(ctx) THEN "dfly_stream" ELSE "stream_ack0"
SyncTest(m, ctx) ==
  IF R_SYNC_OK \notin m
  THEN IF IsDfly(ctx) THEN "dfly_flows" ELSE "psync_header"
  ELSE StreamTest(ctx)
GreetTest(m, ctx) == IF R_GREETED \notin m THEN "greet" ELSE SyncTest(m, ctx)
\* a loop that goes on whatever the state mask holds
LoopTopForever(m, ctx) ==
  IF R_TCP_CONNECTED \notin m THEN "sleep500" ELSE GreetTest(m, ctx)

LoopTop(m, ctx) ==
  IF R_ENABLED \notin m THEN "done"
  ELSE IF R_TCP_CONNECTED \notin m THEN "sleep500"
  ELSE GreetTest(m, ctx)

\* the PSYNC command of InitiatePSync
PsyncCommand(ctx, offs) ==
  IF ctx.master_repl_id # <<>> THEN <<"PSYNC", ctx.master_repl_id, offs>>
  ELSE <<"PSYNC", <<"?">>, -1>>

\* what the function entered at `next` sends first on the main link
FirstSent(next, ctx, offs) ==
  CASE next = "psync_header" -> <<PsyncCommand(ctx, offs)>>
    [] next = "stream_ack0" -> <<<<"REPLCONF", "ACK", 0>>>>
    [] next = "dfly_stream" -> <<<<"QUIT">>>>
    [] OTHER -> <<>>

\* the flows whose fiber runs: sync_fb_.joinable() and not yet finished
Joinable(flows) == {i \in DOMAIN flows : flows[i].fb = "load"}

\* a ConsumeDflyStream that leaves R_ENABLED set
StreamMaskEnabled(next, m) == m

\* the state mask with which the fiber suspends in `next`: ConsumeDflyStream
\* clears R_ENABLED after it sent QUIT and before it waits
StreamMask(next, m) == IF next = "dfly_stream" THEN m \ {R_ENABLED} ELSE m

\* the fiber, having sent the commands cmds since it resumed, runs from state
\* mask m to its next suspension `next`. InitiateDflySync creates the flow
\* Replicas; replacing those of an earlier attempt destroys them, and
\* ~Replica joins a flow's fiber, so the supervisor first waits for the
\* fibers that still run (dfly_reset)
EnterAfter(cmds, next, m, ctx, flows, offs) ==
  LET to == IF next = "dfly_flows" /\ Joinable(shard_flows_) # {} THEN "dfly_reset" ELSE next
  IN /\ fb' = to
     /\ state_mask_' = StreamMask(to, m)
     /\ io' = Pending
     /\ sent' = cmds \o FirstSent(to, ctx, offs)
     /\ shard_flows_' = IF to = "dfly_flows" THEN [i \in 0 .. flows - 1 |-> NewFlow]
                        ELSE shard_flows_
     /\ flow_pos' = IF to = "dfly_flows" THEN [t \in Threads |-> 0] ELSE flow_pos
     /\ dfly_ec' = IF to = "dfly_flows" THEN OK ELSE dfly_ec

Enter(next, m, ctx, flows, offs) == EnterAfter(<<>>, next, m, ctx, flows, offs)

(* what the master and the network can answer *)

MasterId == [i \in 1 .. CONFIG_RUN_ID_SIZE |-> "a"]
SessionId == <<"S", "1">>

\* the largest flow count a master of these runs announces
MaxFlows == 3

ConnectOutcomes == {OK, host_unreachable, connection_reset}

\* the exchanges of Greet in the supervisor runs: a legacy master, a native
\* one with more flows than threads, a native one with a single flow, one
\* that answers PING with an error, a connection that breaks
GreetScripts ==
  {<<Reply(<<StringExpr(PONG)>>), Reply(<<StringExpr(OKSTR)>>), Reply(<<StringExpr(OKSTR)>>)>>,
   <<Reply(<<StringExpr(PONG)>>), Reply(<<StringExpr(OKSTR)>>),
     Reply(<<StringExpr(MasterId), StringExpr(SessionId), Int64Expr(MaxFlows)>>)>>,
   <<Reply(<<StringExpr(PONG)>>), Reply(<<StringExpr(OKSTR)>>),
     Reply(<<StringExpr(MasterId), StringExpr(SessionId), Int64Expr(1)>>)>>,
   <<Reply(<<ErrorExpr(<<"E">>)>>), Failed(connection_reset), Failed(connection_reset)>>,
   <<Reply(<<StringExpr(PONG)>>), Failed(connection_reset), Failed(connection_reset)>>}

GreetBroken == <<Failed(connection_reset), Failed(connection_reset), Failed(connection_reset)>>

EofToken == [i \in 1 .. kRdbEofMarkSize |-> 0]
OtherEofToken == [i \in 1 .. kRdbEofMarkSize |-> IF i = kRdbEofMarkSize THEN 1 ELSE 0]

Header(ec1, line1, ec2, line2, token, size) ==
  [ec1 |-> ec1, line1 |-> line1, ec2 |-> ec2, line2 |-> line2, token |-> token,
   size |-> size, master_repl_id |-> MasterId, offs |-> 0]

HeaderBroken == Header(connection_reset, "", connection_reset, "", <<>>, 0)

\* 'PSyncResponse repl_header' of InitiatePSync as constructed: the variant
\* holds its first alternative, an empty string or the size 0
PSyncResponses == {FullsyncToken(<<>>), FullsyncSize(0)}

\* a first line such as '+OK': it starts with '+' and is neither FULLRESYNC
\* nor CONTINUE; dest is the PSyncResponse the parser was handed
HeaderPlus(dest) ==
  [ec1 |-> OK, line1 |-> "PLUS", ec2 |-> OK, line2 |-> "", token |-> <<>>, size |-> 0,
   master_repl_id |-> MasterId, offs |-> 0, dest |-> dest]

\* the replication headers of the supervisor runs
HeaderScripts ==
  {Header(OK, "FULLRESYNC", OK, "EOF", EofToken, 0),
   Header(OK, "FULLRESYNC", OK, "SIZE", <<>>, 3),
   Header(OK, "CONTINUE", OK, "", <<>>, 0),
   Header(OK, "bad", OK, "", <<>>, 0),
   HeaderBroken}

Loaded(ec, bytes_read, leftover, rest, prefix_unused) ==
  [ec |-> ec, bytes_read |-> bytes_read, leftover |-> leftover, rest |-> rest,
   prefix_unused |-> prefix_unused]

LoadBroken == Loaded(connection_reset, 0, <<>>, <<>>, FALSE)

\* the snapshot streams of the supervisor runs: well-formed ones, one with
\* another token at its end, a connection that breaks
LoadScripts ==
  {Loaded(OK, 3, <<>>, EofToken, FALSE),
   Loaded(OK, 3, <<>>, <<>>, FALSE),
   Loaded(OK, 3, <<>>, OtherEofToken, FALSE),
   LoadBroken}

DflySyncReplies == {Reply(<<StringExpr(OKSTR)>>), Reply(<<ErrorExpr(<<"E">>)>>), Failed(connection_reset)}

\* StartFlow's outcomes: the connect fails, the send or the read fails, the
\* reply is not two strings, the reply is 'FULL <eof token>', the reply names
\* another directive
FlowOutcomes == {"connect_error", "io_error", "bad_reply", "FULL", "other_directive"}

\* the sizes Recv returns while streaming
RecvSizes == {500, 1025}

Received(ec, size, ack_ec, parse_ec) ==
  [ec |-> ec, size |-> size, ack_ec |-> ack_ec, parse_ec |-> parse_ec]

StreamBroken == Received(connection_reset, 0, OK, OK)

\* what one iteration of ConsumeRedisStream meets: Recv's result, the result
\* of sending the ACK if one is sent, ParseAndExecute's result
StreamOutcomes ==
  {Received(OK, n, OK, OK) : n \in {n \in RecvSizes : repl_offs_ + n <= MaxOffs}}
    \cup {Received(OK, n, connection_reset, OK) : n \in {n \in RecvSizes : repl_offs_ + n <= MaxOffs}}
    \cup {Received(OK, n, OK, bad_message) : n \in {n \in RecvSizes : repl_offs_ + n <= MaxOffs}}
    \cup {StreamBroken}

\* the error codes of a protocol error: a malformed or an unexpected reply
ProtocolErrors == {bad_message, illegal_byte_sequence}

\* the calls the fiber, or in Run the caller, waits in
Blocking == {"sleep500", "connect", "greet", "psync_header", "psync_load", "sleep50",
             "dfly_sync", "stream_ack0", "redis_stream", "dfly_stream"}

\* the results the call can complete with while the socket is in use, and
\* those left once Stop has shut the socket down
Completions(call) ==
  CASE call \in {"sleep500", "sleep50"} -> {OK}
    [] call = "connect" -> IF sock_ = "open" THEN ConnectOutcomes ELSE {connection_reset}
    [] call = "greet" -> IF sock_ = "open" THEN GreetScripts ELSE {GreetBroken}
    [] call = "psync_header" -> IF sock_ = "open" THEN HeaderScripts ELSE {HeaderBroken}
    [] call = "psync_load" -> IF sock_ = "open" THEN LoadScripts ELSE {LoadBroken}
    [] call = "dfly_sync" -> IF sock_ = "open" THEN DflySyncReplies ELSE {Failed(connection_reset)}
    [] call \in {"stream_ack0", "dfly_stream"} ->
         IF sock_ = "open" THEN {OK, connection_reset} ELSE {connection_reset}
    [] call = "redis_stream" -> IF sock_ = "open" THEN StreamOutcomes ELSE {StreamBroken}

(* the actions *)

\* Replica::Run, called by REPLICAOF: ConnectSocket and Greet in the caller,
\* then the supervisor fiber is launched
Run ==
  /\ fb = "none"
  /\ \E cres \in ConnectOutcomes : \E x \in GreetScripts :
       LET g == Greet(master_context_, num_df_flows_, x) IN
         /\ sock_' = "open"
         /\ IF cres # OK
            THEN /\ fb' = "run_failed"
                 /\ UNCHANGED <<state_mask_, master_context_, num_df_flows_, sent>>
            ELSE /\ state_mask_' = {R_ENABLED, R_TCP_CONNECTED}
                                     \cup (IF g.greeted THEN {R_GREETED} ELSE {})
                 /\ master_context_' = g.master_context_
                 /\ num_df_flows_' = g.num_df_flows_
                 /\ sent' = g.sent
                 /\ fb' = IF g.ec # OK THEN "run_failed" ELSE "top"
         /\ perr' = (cres = OK /\ g.ec \in ProtocolErrors)
  /\ UNCHANGED <<serverVars, is_paused_, io, fb_ec, repl_offs_, last_ack, ack_sent_at,
                 stop_pc, shard_flows_, flow_pos, dfly_ec, repl_header>>

\* the supervisor fiber starts running: the first test of its loop
SupervisorStart ==
  /\ fb = "top"
  /\ Enter(LoopTop(state_mask_, master_context_), state_mask_, master_context_,
           num_df_flows_, repl_offs_)
  /\ UNCHANGED <<serverVars, perr, is_paused_, sock_, fb_ec, master_context_, num_df_flows_,
                 repl_offs_, last_ack, ack_sent_at, stop_pc, repl_header>>

\* the call the fiber waits in completes: its result is fixed now, the fiber
\* resumes later
IoComplete ==
  /\ fb \in Blocking
  /\ ~io.done
  /\ \E res \in Completions(fb) : io' = [done |-> TRUE, res |-> res]
  /\ UNCHANGED <<serverVars, perr, state_mask_, is_paused_, sock_, fb, fb_ec, master_context_,
                 num_df_flows_, repl_offs_, last_ack, ack_sent_at, sent, stop_pc,
                 shard_flows_, flow_pos, dfly_ec, repl_header>>

\* a supervisor that ignores Pause
PausedNever == FALSE

\* ReplicateRedisFb's test after the sleep: if (is_paused_) continue
Paused == is_paused_

\* the fiber wakes from sleep_for(500ms): when paused it goes round the loop,
\* otherwise ConnectSocket creates a socket and connects
SleepOver ==
  /\ fb = "sleep500"
  /\ io.done
  /\ IF Paused
     THEN /\ Enter(LoopTop(state_mask_, master_context_), state_mask_, master_context_,
                   num_df_flows_, repl_offs_)
          /\ UNCHANGED <<sock_, perr>>
     ELSE /\ Enter("connect", state_mask_, master_context_, num_df_flows_, repl_offs_)
          /\ sock_' = "open"
          /\ perr' = FALSE
  /\ UNCHANGED <<serverVars, is_paused_, fb_ec, master_context_, num_df_flows_,
                 repl_offs_, last_ack, ack_sent_at, stop_pc, repl_header>>

\* ConnectSocket returned
Connected ==
  /\ fb = "connect"
  /\ io.done
  /\ IF io.res # OK
     THEN Enter(LoopTop(state_mask_, master_context_), state_mask_, master_context_,
                num_df_flows_, repl_offs_)
     ELSE LET m == state_mask_ \cup {R_TCP_CONNECTED} IN
          Enter(GreetTest(m, master_context_), m, master_context_, num_df_flows_, repl_offs_)
  /\ fb_ec' = io.res
  /\ UNCHANGED <<serverVars, perr, is_paused_, sock_, master_context_, num_df_flows_,
                 repl_offs_, last_ack, ack_sent_at, stop_pc, repl_header>>

\* Greet returned: its three exchanges are taken as one call, which completes
\* with the last of them
Greeted ==
  /\ fb = "greet"
  /\ io.done
  /\ LET g == Greet(master_context_, num_df_flows_, io.res) IN
       /\ master_context_' = g.master_context_
       /\ num_df_flows_' = g.num_df_flows_
       /\ fb_ec' = g.ec
       /\ perr' = (perr \/ g.ec \in ProtocolErrors)
       /\ IF g.ec # OK
          THEN LET m == state_mask_ \ {R_TCP_CONNECTED} IN
               EnterAfter(g.sent, LoopTop(m, g.master_context_), m, g.master_context_,
                          g.num_df_flows_, repl_offs_)
          ELSE LET m == state_mask_ \cup {R_GREETED} IN
               EnterAfter(g.sent, SyncTest(m, g.master_context_), m, g.master_context_,
                          g.num_df_flows_, repl_offs_)
  /\ UNCHANGED <<serverVars, is_paused_, sock_, repl_offs_, last_ack, ack_sent_at,
                 stop_pc, repl_header>>

\* InitiatePSync after ParseReplicationHeader: an error returns, a full sync
\* sets R_SYNCING and loads, no full sync sets R_SYNC_OK; then the fiber
\* sleeps 50 ms
PSyncHeader ==
  /\ fb = "psync_header"
  /\ io.done
  /\ LET r == ParseReplicationHeader(io.res) IN
       /\ master_context_' = IF r.resync /\ io.res.ec1 = OK
                             THEN [master_context_ EXCEPT !.master_repl_id = io.res.master_repl_id]
                             ELSE master_context_
       /\ repl_offs_' = IF r.resync /\ io.res.ec1 = OK THEN io.res.offs ELSE repl_offs_
       /\ repl_header' = r.fullsync
       /\ perr' = (perr \/ r.ec \in ProtocolErrors)
       /\ UNCHANGED <<sent, shard_flows_, flow_pos, dfly_ec>>
       /\ io' = Pending
       /\ IF r.ec = ABORTED
          THEN fb' = ABORTED /\ UNCHANGED <<state_mask_, fb_ec>>
          ELSE IF r.ec # OK
          THEN fb' = "sleep50" /\ fb_ec' = r.ec /\ UNCHANGED state_mask_
          ELSE IF IsFullSync(r.fullsync)
          THEN /\ fb' = "psync_load"
               /\ state_mask_' = state_mask_ \cup {R_SYNCING}
               /\ UNCHANGED fb_ec
          ELSE /\ fb' = "sleep50"
               /\ fb_ec' = OK
               /\ state_mask_' = (state_mask_ \ {R_SYNCING}) \cup {R_SYNC_OK}
  /\ UNCHANGED <<serverVars, is_paused_, sock_, num_df_flows_, last_ack, ack_sent_at,
                 stop_pc>>

\* what memcmp (456) may find in the kRdbEofMarkSize bytes at
\* eof_token->data() when the token is shorter than that
StackBytes == {EofToken, OtherEofToken}

\* the bytes memcmp (456) compares with the end of the stream: the token of
\* the header, which has kRdbEofMarkSize bytes (589), or, for the empty token
\* of a PSyncResponse that was never assigned, the bytes mem that lie at its
\* data()
EofTokenData(fullsync, mem) ==
  IF fullsync.kind = "token" /\ Len(fullsync.token) < kRdbEofMarkSize
  THEN FullsyncToken(mem)
  ELSE fullsync

\* InitiatePSync after loader.Load: the end of the full sync
PSyncLoaded ==
  /\ fb = "psync_load"
  /\ io.done
  /\ \E mem \in StackBytes :
     LET ec == FullSyncEnd(EofTokenData(repl_header, mem), io.res) IN
       /\ io' = Pending
       /\ IF ec = ABORTED
          THEN fb' = ABORTED /\ UNCHANGED <<state_mask_, fb_ec>>
          ELSE IF ec # OK
          THEN fb' = "sleep50" /\ fb_ec' = ec /\ UNCHANGED state_mask_
          ELSE /\ fb' = "sleep50"
               /\ fb_ec' = OK
               /\ state_mask_' = (state_mask_ \ {R_SYNCING}) \cup {R_SYNC_OK}
  /\ UNCHANGED <<serverVars, perr, is_paused_, sock_, master_context_, num_df_flows_,
                 repl_offs_, last_ack, ack_sent_at, sent, stop_pc, shard_flows_,
                 flow_pos, dfly_ec, repl_header>>

\* the fiber wakes from sleep_for(50ms) and tests InitiatePSync's error
SyncSlept ==
  /\ fb = "sleep50"
  /\ io.done
  /\ IF fb_ec # OK
     THEN LET m == state_mask_ \cap {R_ENABLED} IN
          Enter(LoopTop(m, master_context_), m, master_context_, num_df_flows_, repl_offs_)
     ELSE Enter(StreamTest(master_context_), state_mask_, master_context_,
                num_df_flows_, repl_offs_)
  /\ fb_ec' = OK
  /\ UNCHANGED <<serverVars, perr, is_paused_, sock_, master_context_, num_df_flows_,
                 repl_offs_, last_ack, ack_sent_at, stop_pc, repl_header>>

\* every thread going through all the flows
NextFlowOfAll(t) == flow_pos[t]

\* the flow a thread starts next: the entry flow_pos[t] of partition[t], which
\* holds the ids i with i % num_threads = t in increasing order; and whether
\* the thread's fiber has ended
NextFlow(t) == t + NumThreads * flow_pos[t]
ThreadDone(t) == flow_pos[t] = Broke \/ NextFlow(t) \notin DOMAIN shard_flows_

\* the DFLY FLOW command of StartFlow
FlowCommand(ctx, flow_id) ==
  <<"DFLY", "FLOW", ctx.master_repl_id, ctx.dfly_session_id, flow_id>>

\* the token StartFlow hands to the flow's fiber: the second element of a
\* FULL reply, an empty string after another directive
FlowEofToken(res) == IF res = "FULL" THEN EofToken ELSE <<>>

\* StartFlow's error code for an outcome
FlowError(res) ==
  CASE res \in {"connect_error", "io_error"} -> connection_reset
    [] res = "bad_reply" -> bad_message
    [] OTHER -> OK

\* the fiber AwaitFiberOnAll runs on thread t: StartFlow for the thread's
\* next flow, which creates the flow's socket (CHECK(!sock_)), connects,
\* sends DFLY FLOW and reads the reply; on an error the thread records it
\* and breaks, otherwise the flow's fiber ReplicateDFFb is launched
StartFlow(t) ==
  /\ fb = "dfly_flows"
  /\ ~ThreadDone(t)
  /\ shard_flows_[NextFlow(t)].sock_ = "null"
  /\ \E res \in FlowOutcomes :
       LET id == NextFlow(t)
           local_ec == FlowError(res)
       IN /\ shard_flows_' =
               [shard_flows_ EXCEPT ![id] =
                  [thread |-> t,
                   sock_ |-> "open",
                   sent |-> IF res = "connect_error" THEN <<>>
                            ELSE <<FlowCommand(master_context_, id)>>,
                   state_mask_ |-> IF local_ec = OK THEN {R_ENABLED, R_TCP_CONNECTED} ELSE {},
                   ec |-> local_ec,
                   starts |-> @.starts + 1,
                   fb |-> IF local_ec = OK THEN "load" ELSE "none",
                   eof_token |-> FlowEofToken(res),
                   loaded |-> NotLoaded]]
          /\ IF local_ec # OK
             THEN /\ dfly_ec' = local_ec
                  /\ flow_pos' = [flow_pos EXCEPT ![t] = Broke]
             ELSE /\ flow_pos' = [flow_pos EXCEPT ![t] = @ + 1]
                  /\ UNCHANGED dfly_ec
  /\ UNCHANGED <<serverVars, perr, state_mask_, is_paused_, sock_, fb, io, fb_ec, master_context_,
                 num_df_flows_, repl_offs_, last_ack, ack_sent_at, sent, stop_pc, repl_header>>

\* a DFLY SYNC sent whatever the flows' handshakes gave
FlowsSucceededAny == TRUE

\* InitiateDflySync's test after AwaitFiberOnAll: if (ec) return ec
FlowsSucceeded == dfly_ec = OK

\* InitiateDflySync after AwaitFiberOnAll returned: an error returns, else
\* DFLY SYNC is sent on the main link
DflyFlowsDone ==
  /\ fb = "dfly_flows"
  /\ \A t \in Threads : ThreadDone(t)
  /\ perr' = (perr \/ dfly_ec \in ProtocolErrors)
  /\ IF ~FlowsSucceeded
     THEN LET m == state_mask_ \cap {R_ENABLED} IN
          Enter(LoopTop(m, master_context_), m, master_context_, num_df_flows_, repl_offs_)
     ELSE /\ fb' = "dfly_sync"
          /\ io' = Pending
          /\ sent' = <<<<"DFLY", "SYNC", master_context_.dfly_session_id>>>>
          /\ UNCHANGED <<state_mask_, shard_flows_, flow_pos, dfly_ec>>
  /\ UNCHANGED <<serverVars, is_paused_, sock_, fb_ec, master_context_, num_df_flows_,
                 repl_offs_, last_ack, ack_sent_at, stop_pc, repl_header>>

\* the fiber waits for the fibers of the flows it is about to replace
DflyReset ==
  /\ fb = "dfly_reset"
  /\ Joinable(shard_flows_) = {}
  /\ Enter("dfly_flows", state_mask_, master_context_, num_df_flows_, repl_offs_)
  /\ UNCHANGED <<serverVars, perr, is_paused_, sock_, fb_ec, master_context_, num_df_flows_,
                 repl_offs_, last_ack, ack_sent_at, stop_pc, repl_header>>

\* a flow's fiber ReplicateDFFb ends: loader.Load returned, with an error or
\* without, and if the flow has an EOF token as many bytes were read after
\* the snapshot; a short read is logged, the bytes are not compared, and
\* the fiber returns nothing. loaded notes what the fiber met
FlowLoaded(i) ==
  /\ i \in Joinable(shard_flows_)
  /\ \E res \in FlowEnds :
       /\ shard_flows_[i].sock_ # "open" => res = FlowBroken
       /\ shard_flows_' = [shard_flows_ EXCEPT ![i].fb = "done", ![i].loaded = res]
  /\ UNCHANGED <<serverVars, perr, state_mask_, is_paused_, sock_, fb, io, fb_ec, master_context_,
                 num_df_flows_, repl_offs_, last_ack, ack_sent_at, sent, stop_pc,
                 flow_pos, dfly_ec, repl_header>>

\* InitiateDflySync after the reply to DFLY SYNC: a reply other than OK is an
\* error, after OK the fiber joins the flows' fibers
DflySynced ==
  /\ fb = "dfly_sync"
  /\ io.done
  /\ IF io.res.ec = OK /\ IsSingleString(io.res.resp_args, OKSTR)
     THEN /\ fb' = "dfly_synced"
          /\ io' = Pending
          /\ UNCHANGED <<state_mask_, sent, shard_flows_, flow_pos, dfly_ec, perr>>
     ELSE LET m == state_mask_ \cap {R_ENABLED} IN
          /\ Enter(LoopTop(m, master_context_), m, master_context_, num_df_flows_, repl_offs_)
          /\ perr' = (perr \/ io.res.ec = OK)
  /\ UNCHANGED <<serverVars, is_paused_, sock_, fb_ec, master_context_, num_df_flows_,
                 repl_offs_, last_ack, ack_sent_at, stop_pc, repl_header>>

\* the flows' fibers are joined: InitiateDflySync sets R_SYNC_OK and returns
\* success, and ConsumeDflyStream follows
DflyStreamStart ==
  /\ fb = "dfly_synced"
  /\ Joinable(shard_flows_) = {}
  /\ Enter(StreamTest(master_context_), state_mask_ \cup {R_SYNC_OK}, master_context_,
           num_df_flows_, repl_offs_)
  /\ UNCHANGED <<serverVars, perr, is_paused_, sock_, fb_ec, master_context_, num_df_flows_,
                 repl_offs_, last_ack, ack_sent_at, stop_pc, repl_header>>

\* ConsumeRedisStream after 'REPLCONF ACK 0' was sent: last_ack is taken
Ack0Sent ==
  /\ fb = "stream_ack0"
  /\ io.done
  /\ io' = Pending
  /\ IF io.res # OK
     THEN fb' = "stream_end" /\ UNCHANGED <<last_ack, ack_sent_at>>
     ELSE fb' = "redis_stream" /\ last_ack' = clock /\ ack_sent_at' = clock
  /\ UNCHANGED <<serverVars, perr, state_mask_, is_paused_, sock_, fb_ec, master_context_,
                 num_df_flows_, repl_offs_, sent, stop_pc, shard_flows_, flow_pos,
                 dfly_ec, repl_header>>

\* ConsumeRedisStream's test for sending an ACK
AckDue(offs, now) == offs > ack_offs_ + 1024 \/ now > last_ack + 5

\* one iteration of ConsumeRedisStream's loop
StreamIteration ==
  /\ fb = "redis_stream"
  /\ io.done
  /\ io' = Pending
  /\ LET r == io.res
         offs == repl_offs_ + r.size
         due == AckDue(offs, clock)
     IN IF r.ec # OK
        THEN fb' = "stream_end" /\ UNCHANGED <<repl_offs_, sent, ack_sent_at, perr>>
        ELSE /\ repl_offs_' = offs
             /\ perr' = (perr \/ ((~due \/ r.ack_ec = OK) /\ r.parse_ec \in ProtocolErrors))
             /\ sent' = IF due THEN Append(sent, <<"REPLCONF", "ACK", offs>>) ELSE sent
             /\ ack_sent_at' = IF due /\ r.ack_ec = OK THEN clock ELSE ack_sent_at
             /\ fb' = IF (due /\ r.ack_ec # OK) \/ r.parse_ec # OK THEN "stream_end"
                      ELSE "redis_stream"
  /\ UNCHANGED <<serverVars, state_mask_, is_paused_, sock_, fb_ec, master_context_,
                 num_df_flows_, last_ack, stop_pc, shard_flows_, flow_pos, dfly_ec,
                 repl_header>>

\* ConsumeRedisStream returned: R_SYNC_OK is cleared and the loop goes round
StreamEnd ==
  /\ fb = "stream_end"
  /\ LET m == state_mask_ \ {R_SYNC_OK} IN
     Enter(LoopTop(m, master_context_), m, master_context_, num_df_flows_, repl_offs_)
  /\ UNCHANGED <<serverVars, perr, is_paused_, sock_, fb_ec, master_context_, num_df_flows_,
                 repl_offs_, last_ack, ack_sent_at, stop_pc, repl_header>>

\* ConsumeDflyStream returned
DflyStreamOver ==
  /\ fb = "dfly_stream"
  /\ io.done
  /\ LET m == state_mask_ \ {R_SYNC_OK} IN
     Enter(LoopTop(m, master_context_), m, master_context_, num_df_flows_, repl_offs_)
  /\ UNCHANGED <<serverVars, perr, is_paused_, sock_, fb_ec, master_context_, num_df_flows_,
                 repl_offs_, last_ack, ack_sent_at, stop_pc, repl_header>>

\* Replica::Stop, first part: on the socket's thread, between two runs of the
\* fiber, the mask is zeroed and the socket shut down
Stop ==
  /\ Running
  /\ stop_pc = "none"
  /\ state_mask_' = {}
  /\ sock_' = "shutdown"
  /\ stop_pc' = "join"
  /\ UNCHANGED <<serverVars, perr, is_paused_, fb, io, fb_ec, master_context_, num_df_flows_,
                 repl_offs_, last_ack, ack_sent_at, sent, shard_flows_, flow_pos,
                 dfly_ec, repl_header>>

\* Replica::Stop, second part: sync_fb_.join() returns
StopJoin ==
  /\ stop_pc = "join"
  /\ fb = "done"
  /\ stop_pc' = "flows"
  /\ UNCHANGED <<serverVars, perr, state_mask_, is_paused_, sock_, fb, io, fb_ec,
                 master_context_, num_df_flows_, repl_offs_, last_ack, ack_sent_at, sent,
                 shard_flows_, flow_pos, dfly_ec, repl_header>>

\* the flows Stop's loop has not passed: a flow's Stop shuts its socket down
\* if it has one and joins its fiber if that is joinable
Unstopped(flows) == {i \in DOMAIN flows : flows[i].sock_ = "open" \/ flows[i].fb = "load"}

\* Replica::Stop, third part: Stop of the next flow zeroes its mask and shuts
\* its socket down, and then waits for its fiber; after the last flow Stop
\* returns
StopFlows ==
  /\ stop_pc = "flows"
  /\ IF Unstopped(shard_flows_) = {}
     THEN stop_pc' = "done" /\ UNCHANGED shard_flows_
     ELSE LET i == CHOOSE i \in Unstopped(shard_flows_) :
                     \A j \in Unstopped(shard_flows_) : i <= j
          IN /\ shard_flows_[i].sock_ = "open"
             /\ shard_flows_' = [shard_flows_ EXCEPT ![i].sock_ = "shutdown",
                                                     ![i].state_mask_ = {}]
             /\ UNCHANGED stop_pc
  /\ UNCHANGED <<serverVars, perr, state_mask_, is_paused_, sock_, fb, io, fb_ec,
                 master_context_, num_df_flows_, repl_offs_, last_ack, ack_sent_at, sent,
                 flow_pos, dfly_ec, repl_header>>

\* Replica::Pause(pause), on the socket's thread
Pause ==
  /\ Running
  /\ stop_pc = "none"
  /\ \E pause \in BOOLEAN :
       /\ pause # is_paused_
       /\ is_paused_' = pause
  /\ UNCHANGED <<serverVars, perr, state_mask_, sock_, fb, io, fb_ec, master_context_,
                 num_df_flows_, repl_offs_, last_ack, ack_sent_at, sent, stop_pc,
                 shard_flows_, flow_pos, dfly_ec, repl_header>>


(* ------------------ REPLICAOF, INFO and the replica link --------------- *)

\* the variables no handler of this section assigns
otherVars == <<global_state, clock, last_save_info_, is_saving_, load_pc, confVars, cmd,
               cut, file, hop_db, parseVars, schedVars>>

\* the reactor thread that serves a connection
ThreadOf(p) == IF p = "c1" THEN 0 ELSE NumThreads - 1

\* the process runs: no CHECK failed, no null pointer was dereferenced
Alive == crash = "none"

\* absl::EqualsIgnoreCase on the words of these runs
LowerChar(c) == CASE c = "N" -> "n" [] c = "O" -> "o" [] c = "E" -> "e" [] OTHER -> c
EqualsIgnoreCase(a, b) ==
  Len(a) = Len(b) /\ \A i \in 1 .. Len(a) : LowerChar(a[i]) = LowerChar(b[i])

\* ReplicaOf's test for REPLICAOF NO ONE
IsNoOne(args) ==
  EqualsIgnoreCase(args[2], <<"n", "o">>) /\ EqualsIgnoreCase(args[3], <<"o", "n", "e">>)

\* absl::SimpleAtoi into a uint32_t: -1 stands for its failure
RECURSIVE AtoiLoop(_, _)
AtoiLoop(s, acc) ==
  IF s = <<>> THEN acc
  ELSE IF Head(s) \notin Alphabet \/ CharCode(Head(s)) < CharCode("0")
          \/ CharCode(Head(s)) > CharCode("9")
  THEN -1
  ELSE AtoiLoop(Tail(s), acc * 10 + CharCode(Head(s)) - CharCode("0"))
SimpleAtoi(s) == IF s = <<>> THEN -1 ELSE AtoiLoop(s, 0)

\* ReplicaOf's test of the port
ValidPort(port_s) ==
  LET port == SimpleAtoi(port_s) IN port # -1 /\ ~(port < 1 \/ port > 65535)

\* the supervisor fiber of the Replica was launched and has not ended
FiberLive == fb \notin {"none", "run_failed", "done", ABORTED}

\* replica_ is read or written at `site` by p: noted if p does not hold the mutex
Access(p, site) == IF replicaof_mu_ = p THEN unlocked ELSE unlocked \cup {site}

\* a Replica as its constructor leaves it
NewReplica ==
  /\ state_mask_' = {}
  /\ is_paused_' = FALSE
  /\ sock_' = "null"
  /\ fb' = "none"
  /\ io' = Pending
  /\ fb_ec' = OK
  /\ master_context_' = NoContext
  /\ num_df_flows_' = 0
  /\ repl_offs_' = 0
  /\ repl_header' = [kind |-> "size", token |-> <<>>, size |-> 0]
  /\ last_ack' = 0
  /\ ack_sent_at' = 0
  /\ sent' = <<>>
  /\ stop_pc' = "none"
  /\ shard_flows_' = <<>>
  /\ flow_pos' = <<>>
  /\ dfly_ec' = OK
  /\ perr' = FALSE

\* ReplicaOf with a port that is no port: the error reply
ReplicaOfBadPort(p) ==
  /\ Ready
  /\ Alive
  /\ pc[p] = "exec"
  /\ cmd[p].name \in {"REPLICAOF", "SLAVEOF"}
  /\ ~IsNoOne(cmd[p].args)
  /\ ~ValidPort(cmd[p].args[3])
  /\ sv' = [sv EXCEPT ![p].reply = <<"ERR", "value is not an integer or out of range">>]
  /\ pc' = [pc EXCEPT ![p] = "ret"]
  /\ UNCHANGED <<otherVars, txq, hop, db, roleVars, replicaVars>>

\* a lock that leaves the mutex free
LockedByNobody(p) == "none"

\* unique_lock lk(replicaof_mu_): the mutex is the caller's until lk goes out
\* of scope
LockedBy(p) == p

\* what the handler of p is suspended in: the AwaitFiberOnAll of 1322, 1346 or
\* 1368, the fiber join of Replica::Stop, the flush transaction, or the
\* connect and greet of Replica::Run
Awaits(p) ==
  CASE pc[p] \in {"no_fan", "ro_fan", "ro_role"} -> "AwaitFiberOnAll"
    [] pc[p] \in {"no_stop", "ro_stop"} -> "Stop"
    [] pc[p] \in {"ro_sched", "ro_flush"} -> "Execute"
    [] pc[p] = "ro_run" -> "Run"
    [] OTHER -> "none"

\* unique_lock lk(replicaof_mu_) in ReplicaOf, in either branch (for a
\* host and a port, after the new Replica was constructed)
ReplicaOfLock(p) ==
  /\ Ready
  /\ Alive
  /\ pc[p] = "exec"
  /\ cmd[p].name \in {"REPLICAOF", "SLAVEOF"}
  /\ IsNoOne(cmd[p].args) \/ ValidPort(cmd[p].args[3])
  /\ replicaof_mu_ = "none"
  /\ replicaof_mu_' = LockedBy(p)
  /\ pc' = [pc EXCEPT ![p] = IF IsNoOne(cmd[p].args) THEN "no_locked" ELSE "ro_locked"]
  /\ UNCHANGED <<otherVars, sv, txq, hop, db, is_master, replica_, fanout, crash, unlocked,
                 orphans, replicaVars>>

\* a REPLICAOF NO ONE that acts whatever the role
NoOneActsAlways(master) == TRUE

\* REPLICAOF NO ONE: if (!ServerState::tlocal()->is_master)
NoOneActs(master) == ~master

\* REPLICAOF NO ONE under the mutex: a master replies OK; a replica copies
\* replica_, CHECKs it and fans is_master = true out
NoOneTest(p) ==
  /\ Ready
  /\ Alive
  /\ pc[p] = "no_locked"
  /\ IF ~NoOneActs(is_master[ThreadOf(p)])
     THEN /\ replicaof_mu_' = "none"
          /\ sv' = [sv EXCEPT ![p].reply = <<"OK">>]
          /\ pc' = [pc EXCEPT ![p] = "ret"]
          /\ UNCHANGED <<fanout, crash, unlocked>>
     ELSE /\ unlocked' = Access(p, "ReplicaOf")
          /\ IF replica_ = "null"
             THEN /\ crash' = "CHECK(repl_ptr)"
                  /\ pc' = [pc EXCEPT ![p] = "crashed"]
                  /\ UNCHANGED <<fanout, replicaof_mu_, sv>>
             ELSE /\ fanout' = [value |-> TRUE, left |-> Threads]
                  /\ pc' = [pc EXCEPT ![p] = "no_fan"]
                  /\ UNCHANGED <<crash, replicaof_mu_, sv>>
  /\ UNCHANGED <<otherVars, txq, hop, db, is_master, replica_, orphans, replicaVars>>

\* the fiber AwaitFiberOnAll runs on thread t assigns the thread's is_master
FanOut(t) ==
  /\ Alive
  /\ t \in fanout.left
  /\ is_master' = [is_master EXCEPT ![t] = fanout.value]
  /\ fanout' = [fanout EXCEPT !.left = @ \ {t}]
  /\ UNCHANGED <<otherVars, pc, sv, txq, hop, db, replica_, replicaof_mu_, crash, unlocked,
                 orphans, replicaVars>>

\* REPLICAOF NO ONE: AwaitFiberOnAll returned, replica_->Stop() is called
NoOneStop(p) ==
  /\ Ready
  /\ Alive
  /\ pc[p] = "no_fan"
  /\ fanout.left = {}
  /\ unlocked' = Access(p, "ReplicaOf")
  /\ pc' = [pc EXCEPT ![p] = "no_stop"]
  /\ UNCHANGED <<otherVars, sv, txq, hop, db, is_master, replica_, replicaof_mu_, fanout,
                 crash, orphans, replicaVars>>

\* REPLICAOF NO ONE: Stop returned; replica_.reset(), the mutex is released
\* and OK is sent
NoOneStopped(p) ==
  /\ Ready
  /\ Alive
  /\ pc[p] = "no_stop"
  /\ stop_pc = "done"
  /\ unlocked' = Access(p, "ReplicaOf")
  /\ orphans' = IF FiberLive THEN orphans + 1 ELSE orphans
  /\ replica_' = "null"
  /\ replicaof_mu_' = "none"
  /\ sv' = [sv EXCEPT ![p].reply = <<"OK">>]
  /\ pc' = [pc EXCEPT ![p] = "ret"]
  /\ UNCHANGED <<otherVars, txq, hop, db, is_master, fanout, crash, replicaVars>>

\* a REPLICAOF that never stops the Replica it replaces
StopsPreviousNever(r) == FALSE

\* ReplicaOf host port: if (replica_) replica_->Stop()
StopsPrevious(r) == r # "null"

\* ReplicaOf host port under the mutex: the Replica in place is stopped, or,
\* if there is none, is_master = false is fanned out
ReplicaOfTest(p) ==
  /\ Ready
  /\ Alive
  /\ pc[p] = "ro_locked"
  /\ unlocked' = Access(p, "ReplicaOf")
  /\ IF StopsPrevious(replica_)
     THEN /\ pc' = [pc EXCEPT ![p] = "ro_stop"]
          /\ UNCHANGED fanout
     ELSE /\ fanout' = [value |-> FALSE, left |-> Threads]
          /\ pc' = [pc EXCEPT ![p] = "ro_fan"]
  /\ UNCHANGED <<otherVars, sv, txq, hop, db, is_master, replica_, replicaof_mu_, crash,
                 orphans, replicaVars>>

\* ReplicaOf host port: Stop or AwaitFiberOnAll returned; replica_ is swapped
\* with the new Replica and the transaction is scheduled
ReplicaOfSwap(p) ==
  /\ Ready
  /\ Alive
  /\ \/ pc[p] = "ro_stop" /\ stop_pc = "done"
     \/ pc[p] = "ro_fan" /\ fanout.left = {}
  /\ unlocked' = Access(p, "ReplicaOf")
  /\ orphans' = IF replica_ # "null" /\ FiberLive THEN orphans + 1 ELSE orphans
  /\ replica_' = "set"
  /\ NewReplica
  /\ txq' = Schedule(p, cmd[p])
  /\ pc' = [pc EXCEPT ![p] = "ro_sched"]
  /\ UNCHANGED <<otherVars, sv, hop, db, is_master, replicaof_mu_, fanout, crash>>

\* ReplicaOf host port: transaction->Execute(cb, true) hands the flush to
\* the shards
ReplicaOfExecute(p) ==
  /\ Ready
  /\ Alive
  /\ pc[p] = "ro_sched"
  /\ hop' = [hop EXCEPT ![p] = [armed |-> TRUE, ran |-> {}]]
  /\ pc' = [pc EXCEPT ![p] = "ro_flush"]
  /\ UNCHANGED <<otherVars, sv, txq, db, roleVars, replicaVars>>

\* ReplicaOf host port: Execute returned on every shard, replica_->Run is
\* called
ReplicaOfFlushed(p) ==
  /\ Ready
  /\ Alive
  /\ pc[p] = "ro_flush"
  /\ hop[p].ran = TxShards(cmd[p])
  /\ hop' = [hop EXCEPT ![p] = NoHop]
  /\ unlocked' = Access(p, "ReplicaOf")
  /\ pc' = [pc EXCEPT ![p] = "ro_run"]
  /\ UNCHANGED <<otherVars, sv, txq, db, is_master, replica_, replicaof_mu_, fanout, crash,
                 orphans, replicaVars>>

\* a REPLICAOF that leaves the role as it is when Run fails
RoleAfterRunKept(r) == FALSE

\* ReplicaOf host port: bool is_master = !replica_
RoleAfterRun(r) == r = "null"

\* ReplicaOf host port: Run returned, having sent the reply; on failure
\* replica_ is reset; then is_master = !replica_ is fanned out
ReplicaOfRan(p) ==
  /\ Ready
  /\ Alive
  /\ pc[p] = "ro_run"
  /\ fb # "none"
  /\ unlocked' = Access(p, "ReplicaOf")
  /\ LET r == IF fb = "run_failed" THEN "null" ELSE replica_ IN
       /\ replica_' = r
       /\ fanout' = [value |-> RoleAfterRun(r), left |-> Threads]
  /\ sv' = [sv EXCEPT ![p].reply = IF fb = "run_failed"
                                   THEN <<"ERR", "could not reach the master">>
                                   ELSE <<"OK">>]
  /\ pc' = [pc EXCEPT ![p] = "ro_role"]
  /\ UNCHANGED <<otherVars, txq, hop, db, is_master, replicaof_mu_, crash, orphans,
                 replicaVars>>

\* ReplicaOf host port: the last AwaitFiberOnAll returned, the handler
\* returns and releases the mutex
ReplicaOfDone(p) ==
  /\ Ready
  /\ Alive
  /\ pc[p] = "ro_role"
  /\ fanout.left = {}
  /\ replicaof_mu_' = "none"
  /\ pc' = [pc EXCEPT ![p] = "ret"]
  /\ UNCHANGED <<otherVars, sv, txq, hop, db, is_master, replica_, fanout, crash, unlocked,
                 orphans, replicaVars>>

\* someone is inside replica_->Stop()
StopRequested == (\E p \in Clients : pc[p] \in {"ro_stop", "no_stop"}) \/ shutdown_pc = "stop"

\* Replica::Stop as ReplicaOf and Shutdown call it
ReplicaStop == StopRequested /\ Alive /\ Stop

\* Replica::Run as ReplicaOf calls it, against a legacy master or a native
\* one with a single flow
ReplicaRun == (\E p \in Clients : pc[p] = "ro_run") /\ Alive /\ Run /\ num_df_flows_' <= 1

\* the replication section of ServerFamily::Info, on the connection's thread:
\* a master reports its role; otherwise replica_ is copied, without the
\* mutex, and GetInfo is called on it, which CHECKs sock_ and reads the state
\* mask
Info(p) ==
  /\ Ready
  /\ Alive
  /\ pc[p] = "exec"
  /\ cmd[p].name = "INFO"
  /\ IF is_master[ThreadOf(p)]
     THEN /\ sv' = [sv EXCEPT ![p].reply = <<"role", "master">>]
          /\ pc' = [pc EXCEPT ![p] = "ret"]
          /\ UNCHANGED <<crash, unlocked>>
     ELSE /\ unlocked' = Access(p, "Info")
          /\ IF replica_ = "null"
             THEN /\ crash' = "null Replica"
                  /\ pc' = [pc EXCEPT ![p] = "crashed"]
                  /\ UNCHANGED sv
             ELSE IF sock_ = "null"
             THEN /\ crash' = "CHECK(sock_)"
                  /\ pc' = [pc EXCEPT ![p] = "crashed"]
                  /\ UNCHANGED sv
             ELSE /\ sv' = [sv EXCEPT ![p].reply =
                              <<"role", "slave",
                                "master_link_status", R_TCP_CONNECTED \in state_mask_,
                                "master_sync_in_progress", R_SYNCING \in state_mask_>>]
                  /\ pc' = [pc EXCEPT ![p] = "ret"]
                  /\ UNCHANGED crash
  /\ UNCHANGED <<otherVars, txq, hop, db, is_master, replica_, replicaof_mu_, fanout, orphans,
                 replicaVars>>

\* unique_lock lk(replicaof_mu_) in PauseReplication, which DEBUG REPLICA
\* PAUSE and RESUME call
PauseReplicationLock(p) ==
  /\ Ready
  /\ Alive
  /\ pc[p] = "exec"
  /\ cmd[p].name = "DEBUG"
  /\ replicaof_mu_ = "none"
  /\ replicaof_mu_' = p
  /\ pc' = [pc EXCEPT ![p] = "pause_locked"]
  /\ UNCHANGED <<otherVars, sv, txq, hop, db, is_master, replica_, fanout, crash, unlocked,
                 orphans, replicaVars>>

\* PauseReplication under the mutex: on a replica replica_ is copied and
\* CHECKed and Replica::Pause assigns is_paused_ on the socket's thread
PauseReplication(p) ==
  /\ Ready
  /\ Alive
  /\ pc[p] = "pause_locked"
  /\ IF is_master[ThreadOf(p)]
     THEN /\ replicaof_mu_' = "none"
          /\ sv' = [sv EXCEPT ![p].reply = <<"OK">>]
          /\ pc' = [pc EXCEPT ![p] = "ret"]
          /\ UNCHANGED <<crash, unlocked, is_paused_>>
     ELSE /\ unlocked' = Access(p, "PauseReplication")
          /\ IF replica_ = "null" \/ sock_ = "null"
             THEN /\ crash' = IF replica_ = "null" THEN "CHECK(repl_ptr)" ELSE "null socket"
                  /\ pc' = [pc EXCEPT ![p] = "crashed"]
                  /\ UNCHANGED <<replicaof_mu_, sv, is_paused_>>
             ELSE /\ is_paused_' = (cmd[p].args[3] = "PAUSE")
                  /\ replicaof_mu_' = "none"
                  /\ sv' = [sv EXCEPT ![p].reply = <<"OK">>]
                  /\ pc' = [pc EXCEPT ![p] = "ret"]
                  /\ UNCHANGED crash
  /\ UNCHANGED <<otherVars, txq, hop, db, is_master, replica_, fanout, orphans,
                 state_mask_, sock_, fb, io, fb_ec, master_context_, num_df_flows_,
                 repl_offs_, repl_header, last_ack, ack_sent_at, sent, stop_pc, shard_flows_,
                 flow_pos, dfly_ec, perr>>

\* ServerFamily::Shutdown, in the task on pb_task_: unique_lock lk(replicaof_mu_)
ShutdownLock ==
  /\ Ready
  /\ Alive
  /\ shutdown_pc = "done"
  /\ replicaof_mu_ = "none"
  /\ replicaof_mu_' = "shutdown"
  /\ shutdown_pc' = "locked"
  /\ UNCHANGED <<global_state, clock, last_save_info_, is_saving_, load_pc, confVars, pc, cmd,
                 sv, txq, hop, db, cut, file, hop_db, parseVars, sched_now, sched_wait,
                 is_snapshot_done_, saved_minutes, sched_failed, is_master, replica_, fanout,
                 crash, unlocked, orphans, replicaVars>>

\* Shutdown under the mutex: if (replica_) replica_->Stop(); once Stop has
\* returned, or without a Replica, the task ends and releases the mutex
ShutdownReplica ==
  /\ Ready
  /\ Alive
  /\ \/ /\ shutdown_pc = "locked"
        /\ unlocked' = Access("shutdown", "Shutdown")
        /\ IF replica_ # "null"
           THEN shutdown_pc' = "stop" /\ UNCHANGED replicaof_mu_
           ELSE shutdown_pc' = "stopped" /\ replicaof_mu_' = "none"
     \/ /\ shutdown_pc = "stop"
        /\ stop_pc = "done"
        /\ shutdown_pc' = "stopped"
        /\ replicaof_mu_' = "none"
        /\ UNCHANGED unlocked
  /\ UNCHANGED <<global_state, clock, last_save_info_, is_saving_, load_pc, confVars, pc, cmd,
                 sv, txq, hop, db, cut, file, hop_db, parseVars, sched_now, sched_wait,
                 is_snapshot_done_, saved_minutes, sched_failed, is_master, replica_, fanout,
                 crash, orphans, replicaVars>>

(* ---------------------------- specifications -------------------------- *)

DoSaveStep(p) ==
  \/ DoSaveStart(p)
  \/ DoSaveOpenLegacy(p)
  \/ DoSaveHopDone(p)
  \/ \E i \in ShardIds : SaveCb(p, i)
  \/ DoSaveBodyDone(p)
  \/ \E i \in ShardIds : CloseCb(p, i)
  \/ DoSaveFinish(p)
  \/ DoSaveReturn(p)

DoFlushStep(p) ==
  \/ FlushAll(p)
  \/ FlushDb(p)
  \/ DoFlushExecute(p)
  \/ DoFlushDone(p)

\* the save runs: one client and the scheduler, a file system that may fail,
\* a clock that advances
SaveClients == {"c1"}
SaveRequests ==
  {[name |-> "SAVE", args |-> <<"SAVE">>, keys |-> {}],
   [name |-> "SAVE", args |-> <<"SAVE", "df">>, keys |-> {}],
   [name |-> "LASTSAVE", args |-> <<"LASTSAVE">>, keys |-> {}]}

Next ==
  \/ Load
  \/ LoadRdb
  \/ Tick
  \/ \E p \in SaveClients : \E c \in SaveRequests : Dispatch(p, c)
  \/ \E p \in SaveClients : Save(p)
  \/ \E p \in SaveClients : LastSave(p)
  \/ SnapshotSchedulingTick
  \/ SnapshotSchedulingSave
  \/ \E p \in Procs : DoSaveStep(p)
  \/ \E s \in ShardIds : ShardRunHop(s)
  \/ \E p \in Procs : Done(p)

Spec == Init /\ [][Next]_vars

\* the transaction runs: two clients writing, flushing and saving, no
\* schedule, no load file, a file system that works
TxRequests ==
  {[name |-> "MSET", args |-> <<"MSET">>, keys |-> ShardIds],
   [name |-> "MSET", args |-> <<"MSET">>, keys |-> {0}],
   [name |-> "FLUSHALL", args |-> <<"FLUSHALL">>, keys |-> {}],
   [name |-> "FLUSHDB", args |-> <<"FLUSHDB">>, keys |-> {}],
   [name |-> "SAVE", args |-> <<"SAVE">>, keys |-> {}],
   [name |-> "SAVE", args |-> <<"SAVE", "df">>, keys |-> {}]}

InitTx ==
  /\ InitCommon
  /\ time_arg = <<>>
  /\ load_pc = "done"
  /\ save_spec = nullopt
  /\ faults = FALSE
  /\ dir = DataDir

NextTx ==
  \/ \E p \in Clients : \E c \in TxRequests : Dispatch(p, c)
  \/ \E p \in Clients : Save(p)
  \/ \E p \in Clients : Write(p)
  \/ \E p \in Clients : WriteDone(p)
  \/ \E p \in Clients : DoFlushStep(p)
  \/ \E p \in Clients : DoSaveStep(p)
  \/ \E s \in ShardIds : ShardRunHop(s)
  \/ \E p \in Clients : Done(p)

SpecTx == InitTx /\ [][NextTx]_vars

\* the directory runs: one client saving in both versions while the clock
\* advances, with --dir empty, written without and with a trailing separator
Dirs == {NoDir, <<"/", "data">>, DataDir}

InitDir ==
  /\ InitCommon
  /\ time_arg = <<>>
  /\ load_pc = "done"
  /\ save_spec = nullopt
  /\ faults = FALSE
  /\ dir \in Dirs

NextDir ==
  \/ Tick
  \/ \E p \in SaveClients : \E c \in SaveRequests : Dispatch(p, c)
  \/ \E p \in SaveClients : Save(p)
  \/ \E p \in SaveClients : LastSave(p)
  \/ \E p \in SaveClients : DoSaveStep(p)
  \/ \E s \in ShardIds : ShardRunHop(s)
  \/ \E p \in SaveClients : Done(p)

SpecDir == InitDir /\ [][NextDir]_vars

\* the command runs: one client issuing every registered command while the
\* server loads and the scheduler runs, a file system that works
CmdClients == {"c1"}
CmdRequests == {[name |-> n, args |-> <<n>>, keys |-> {}] : n \in RegisteredCommands}

InitCmd ==
  /\ InitCommon
  /\ time_arg = <<>>
  /\ load_pc = "boot"
  /\ save_spec = ParseSaveSchedule(<<"*", ":", "*">>)
  /\ faults = FALSE
  /\ dir = DataDir

NextCmd ==
  \/ Load
  \/ LoadRdb
  \/ Tick
  \/ \E p \in CmdClients : \E c \in CmdRequests : Dispatch(p, c)
  \/ \E p \in CmdClients : Save(p)
  \/ \E p \in CmdClients : LastSave(p)
  \/ \E p \in CmdClients : Handle(p)
  \/ \E p \in CmdClients : DoFlushStep(p)
  \/ SnapshotSchedulingTick
  \/ SnapshotSchedulingSave
  \/ \E p \in Procs : DoSaveStep(p)
  \/ \E s \in ShardIds : ShardRunHop(s)
  \/ \E p \in Procs : Done(p)

SpecCmd == InitCmd /\ [][NextCmd]_vars

\* the schedule runs: a string is parsed and, when accepted, a time is
\* tested against it
InitParse ==
  /\ InitCommon
  /\ time_arg \in Inputs
  /\ load_pc = "boot"
  /\ save_spec = nullopt
  /\ faults = FALSE
  /\ dir = DataDir

NextParse ==
  \/ ParseFlag
  \/ MatchTime

SpecParse == InitParse /\ [][NextParse]_vars

\* the scheduler runs: one client saving by hand, a scheduler whose spec
\* matches every minute, a file system that may fail, a clock that advances,
\* and Shutdown
SchedClients == {"c1"}
SchedRequests == {[name |-> "SAVE", args |-> <<"SAVE">>, keys |-> {}]}

InitSched ==
  /\ InitCommon
  /\ time_arg = <<>>
  /\ load_pc = "done"
  /\ save_spec = ParseSaveSchedule(<<"*", ":", "*">>)
  /\ faults = TRUE
  /\ dir = DataDir

\* the steps of the scheduler fiber
SchedulerStep ==
  \/ SnapshotSchedulingTick
  \/ SnapshotSchedulingSave
  \/ SnapshotSchedulingExit
  \/ DoSaveStep(Sched)
  \/ Done(Sched)

\* the steps of a client's connection fiber once its command is dispatched
ClientStep(p) ==
  \/ Save(p)
  \/ DoSaveStep(p)
  \/ Done(p)

\* the steps of Shutdown
ShutdownStep ==
  \/ ShutdownJoinLoad
  \/ ShutdownNotify
  \/ ShutdownJoin

NextSched ==
  \/ Tick
  \/ \E p \in SchedClients : \E c \in SchedRequests : Dispatch(p, c)
  \/ \E p \in SchedClients : ClientStep(p)
  \/ SchedulerStep
  \/ \E s \in ShardIds : ShardRunHop(s)
  \/ ShutdownStep

SpecSched == InitSched /\ [][NextSched]_vars

\* the same runs under the scheduling the fibers get: a fiber that is ready
\* to run is run, and so is a thread. A step of one fiber waits for another's
\* reply to be handed over (Ready), so a fiber's steps are enabled again and
\* again rather than continuously: fairness is strong
SpecSchedFair ==
  /\ SpecSched
  /\ SF_vars(SchedulerStep)
  /\ \A p \in SchedClients : SF_vars(ClientStep(p))
  /\ \A s \in ShardIds : SF_vars(ShardRunHop(s))
  /\ SF_vars(ShutdownNotify \/ ShutdownJoin)

\* the flows of the replica runs: the master answers DFLY FLOW with
\* 'FULL <token>' or the handshake fails, and a flow's stream ends with the
\* token unless the flow's socket was shut down
ScriptedFlow(i) ==
  /\ shard_flows_'[i].fb = "load" => shard_flows_'[i].eof_token = EofToken
  /\ shard_flows_'[i].fb = "done" =>
       shard_flows_'[i].loaded =
         IF shard_flows_[i].sock_ = "open" THEN FlowEnd(OK, "token") ELSE FlowBroken

ScriptedStartFlow(t) == StartFlow(t) /\ ScriptedFlow(NextFlow(t))

ScriptedFlowLoaded(i) == FlowLoaded(i) /\ ScriptedFlow(i)

\* the replica runs: REPLICAOF starts a replica of a legacy or of a native
\* master; the supervisor runs against a master and a network that may fail,
\* while Pause and Stop arrive and the clock advances
NextReplica ==
  \/ Run
  \/ SupervisorStart
  \/ IoComplete
  \/ SleepOver
  \/ Connected
  \/ Greeted
  \/ PSyncHeader
  \/ PSyncLoaded
  \/ SyncSlept
  \/ \E t \in Threads : ScriptedStartFlow(t)
  \/ DflyFlowsDone
  \/ DflySynced
  \/ DflyReset
  \/ \E i \in 0 .. MaxFlows - 1 : ScriptedFlowLoaded(i)
  \/ DflyStreamStart
  \/ Ack0Sent
  \/ StreamIteration
  \/ StreamEnd
  \/ DflyStreamOver
  \/ Stop
  \/ StopJoin
  \/ StopFlows
  \/ Pause
  \/ Tick

InitReplica ==
  /\ InitCommon
  /\ time_arg = <<>>
  /\ load_pc = "done"
  /\ save_spec = nullopt
  /\ faults = FALSE
  /\ dir = DataDir

SpecReplica == InitReplica /\ [][NextReplica]_vars

\* a step of the supervisor fiber, or of a fiber of InitiateDflySync
SupervisorStep ==
  \/ SupervisorStart
  \/ SleepOver
  \/ Connected
  \/ Greeted
  \/ PSyncHeader
  \/ PSyncLoaded
  \/ SyncSlept
  \/ \E t \in Threads : ScriptedStartFlow(t)
  \/ DflyFlowsDone
  \/ DflySynced
  \/ DflyReset
  \/ DflyStreamStart
  \/ Ack0Sent
  \/ StreamIteration
  \/ StreamEnd
  \/ DflyStreamOver

\* the replica while the clock stands still
NextPause ==
  \/ Run
  \/ SupervisorStep
  \/ IoComplete
  \/ \E i \in 0 .. MaxFlows - 1 : ScriptedFlowLoaded(i)
  \/ Stop
  \/ StopJoin
  \/ StopFlows
  \/ Pause

\* the fiber scheduler runs a fiber that is ready, and a sleep or an I/O call
\* completes; Pause and Stop are called or not
SpecPause == InitReplica /\ [][NextPause]_vars

SpecPauseFair ==
  /\ SpecPause
  /\ WF_vars(SupervisorStep)
  /\ WF_vars(IoComplete)

\* what completes whatever the master does: a sleep, and a call on a socket
\* that was shut down
CompletesAlone == fb \in {"sleep500", "sleep50"} \/ sock_ # "open"

\* the same runs under the scheduling alone: a fiber that is ready is run, a
\* sleep ends, a call on a socket that was shut down fails, and Stop goes on
\* when what it waits for has happened; a call on an open socket completes
\* when the master answers, which nothing obliges it to do
SpecStopFair ==
  /\ SpecPause
  /\ WF_vars(SupervisorStep)
  /\ WF_vars(IoComplete /\ CompletesAlone)
  /\ \A i \in 0 .. MaxFlows - 1 :
       WF_vars(FlowLoaded(i) /\ shard_flows_[i].sock_ = "shutdown")
  /\ WF_vars(StopJoin \/ StopFlows)

\* the roles run: an administrator's connection issues REPLICAOF with a host
\* and a port, with a port that is none, REPLICAOF NO ONE and DEBUG REPLICA
\* PAUSE; a second connection issues REPLICAOF with a host and a port,
\* REPLICAOF NO ONE, INFO and a write; Shutdown arrives; the master is reached
\* or not when Run connects and greets, and says nothing after that: a call
\* on the open socket stays pending, a call on a socket that was shut down
\* fails
AdminRequests ==
  {[name |-> "REPLICAOF", args |-> <<"REPLICAOF", <<"a">>, <<"8", "0">>>>, keys |-> {}],
   [name |-> "REPLICAOF", args |-> <<"REPLICAOF", <<"a">>, <<"0">>>>, keys |-> {}],
   [name |-> "REPLICAOF", args |-> <<"REPLICAOF", <<"N", "O">>, <<"o", "n", "e">>>>, keys |-> {}],
   [name |-> "DEBUG", args |-> <<"DEBUG", "REPLICA", "PAUSE">>, keys |-> {}]}
UserRequests ==
  {[name |-> "SLAVEOF", args |-> <<"SLAVEOF", <<"a">>, <<"6", "5", "5", "3", "5">>>>, keys |-> {}],
   [name |-> "SLAVEOF", args |-> <<"SLAVEOF", <<"n", "o">>, <<"O", "N", "E">>>>, keys |-> {}],
   [name |-> "INFO", args |-> <<"INFO">>, keys |-> {}],
   [name |-> "MSET", args |-> <<"MSET">>, keys |-> ShardIds]}

\* a call of the supervisor or of a flow fails on the socket Stop shut down
LinkDown == IoComplete /\ sock_ = "shutdown"

NextRole ==
  \/ \E c \in AdminRequests : Dispatch("c1", c)
  \/ \E c \in UserRequests : Dispatch("c2", c)
  \/ \E p \in Clients : ReplicaOfBadPort(p)
  \/ \E p \in Clients : ReplicaOfLock(p)
  \/ \E p \in Clients : NoOneTest(p)
  \/ \E p \in Clients : NoOneStop(p)
  \/ \E p \in Clients : NoOneStopped(p)
  \/ \E p \in Clients : ReplicaOfTest(p)
  \/ \E p \in Clients : ReplicaOfSwap(p)
  \/ \E p \in Clients : ReplicaOfExecute(p)
  \/ \E p \in Clients : ReplicaOfFlushed(p)
  \/ \E p \in Clients : ReplicaOfRan(p)
  \/ \E p \in Clients : ReplicaOfDone(p)
  \/ \E t \in Threads : FanOut(t)
  \/ \E p \in Clients : Info(p)
  \/ \E p \in Clients : PauseReplicationLock(p)
  \/ \E p \in Clients : PauseReplication(p)
  \/ \E p \in Clients : Write(p)
  \/ \E p \in Clients : WriteDone(p)
  \/ \E s \in ShardIds : ShardRunHop(s)
  \/ \E p \in Clients : Done(p)
  \/ ReplicaRun
  \/ ReplicaStop
  \/ SupervisorStart
  \/ \E t \in Threads : ScriptedStartFlow(t)
  \/ DflyFlowsDone
  \/ DflySynced
  \/ PSyncHeader
  \/ LinkDown
  \/ \E i \in 0 .. MaxFlows - 1 : ScriptedFlowLoaded(i)
  \/ StopJoin
  \/ StopFlows
  \/ ShutdownStep
  \/ ShutdownLock
  \/ ShutdownReplica

SpecRole == InitReplica /\ [][NextRole]_vars

(* Greet on its own, against every kind of reply *)

\* the context an earlier handshake with a native master left behind
OldContext == [master_repl_id |-> [i \in 1 .. CONFIG_RUN_ID_SIZE |-> "b"],
               dfly_session_id |-> <<"S", "0">>]

\* what can come back for PING, for the first and for the second REPLCONF:
\* the expected replies, other texts, types and arities, master ids of 39 and
\* of 41 characters, flow counts around the limits of the sanity check,
\* replies that do not parse, I/O errors
GreetReplies ==
  LET ShortId == [i \in 1 .. CONFIG_RUN_ID_SIZE - 1 |-> "a"]
      LongId == [i \in 1 .. CONFIG_RUN_ID_SIZE + 1 |-> "a"]
      FlowCounts == {-1, 0, 1, MaxFlows, MaxFlowCount, MaxFlowCount + 1}
      PingReplies ==
        {Reply(<<StringExpr(PONG)>>), Reply(<<StringExpr(OKSTR)>>), Reply(<<ErrorExpr(PONG)>>),
         Reply(<<StringExpr(PONG), StringExpr(PONG)>>), Failed(connection_reset),
         Failed(bad_message)}
      CapaEofReplies ==
        {Reply(<<StringExpr(OKSTR)>>), Reply(<<StringExpr(PONG)>>), Reply(<<Int64Expr(1)>>),
         Reply(<<StringExpr(OKSTR), StringExpr(OKSTR)>>), Failed(connection_reset)}
      CapaDragonflyReplies ==
        {Reply(<<StringExpr(OKSTR)>>), Reply(<<StringExpr(PONG)>>), Reply(<<Int64Expr(1)>>),
         Reply(<<ErrorExpr(OKSTR)>>), Reply(<<StringExpr(OKSTR), StringExpr(OKSTR)>>),
         Reply(<<StringExpr(MasterId), StringExpr(SessionId), Int64Expr(1), Int64Expr(1)>>),
         Reply(<<Int64Expr(1), StringExpr(SessionId), Int64Expr(1)>>),
         Reply(<<StringExpr(MasterId), Int64Expr(1), Int64Expr(1)>>),
         Reply(<<StringExpr(MasterId), StringExpr(SessionId), StringExpr(<<"1">>)>>),
         Reply(<<StringExpr(ShortId), StringExpr(SessionId), Int64Expr(1)>>),
         Reply(<<StringExpr(LongId), StringExpr(SessionId), Int64Expr(1)>>),
         Failed(connection_reset), Failed(bad_message)}
          \cup {Reply(<<StringExpr(MasterId), StringExpr(SessionId), Int64Expr(n)>>) :
                  n \in FlowCounts}
  IN IF sock_ = "open"
     THEN {<<x1, x2, x3>> : x1 \in PingReplies, x2 \in CapaEofReplies,
                            x3 \in CapaDragonflyReplies}
     ELSE {GreetBroken}

\* the exchanges of a Greet in progress complete
GreetArrives ==
  /\ fb = "greet"
  /\ ~io.done
  /\ \E x \in GreetReplies : io' = [done |-> TRUE, res |-> x]
  /\ UNCHANGED <<serverVars, perr, state_mask_, is_paused_, sock_, fb, fb_ec, master_context_,
                 num_df_flows_, repl_offs_, last_ack, ack_sent_at, sent, stop_pc,
                 shard_flows_, flow_pos, dfly_ec, repl_header>>

\* the supervisor has connected and waits in Greet, for the first time or
\* after a link to a native master was lost
InitGreet ==
  /\ InitServer
  /\ time_arg = <<>>
  /\ load_pc = "done"
  /\ save_spec = nullopt
  /\ faults = FALSE
  /\ dir = DataDir
  /\ state_mask_ = {R_ENABLED, R_TCP_CONNECTED}
  /\ is_paused_ = FALSE
  /\ sock_ = "open"
  /\ fb = "greet"
  /\ io = Pending
  /\ fb_ec = OK
  /\ \E old \in BOOLEAN :
       /\ master_context_ = IF old THEN OldContext ELSE NoContext
       /\ num_df_flows_ = IF old THEN 2 ELSE 0
  /\ repl_offs_ = 0
  /\ repl_header = [kind |-> "size", token |-> <<>>, size |-> 0]
  /\ last_ack = 0
  /\ ack_sent_at = 0
  /\ sent = <<>>
  /\ stop_pc = "none"
  /\ shard_flows_ = <<>>
  /\ flow_pos = <<>>
  /\ dfly_ec = OK
  /\ perr = FALSE

NextGreet ==
  \/ GreetArrives
  \/ Greeted
  \/ Stop

SpecGreet == InitGreet /\ [][NextGreet]_vars

(* InitiatePSync on its own, against every kind of header and stream *)

\* the headers of a master: EOF tokens of 40 and of 39 bytes, declared sizes
\* 0, 3 and 5, no full sync, lines that are refused, another '+' line, I/O
\* errors
PSyncHeaders ==
  LET ShortEofToken == [i \in 1 .. kRdbEofMarkSize - 1 |-> 0]
  IN {Header(OK, "FULLRESYNC", OK, "EOF", tok, 0) :
        tok \in {EofToken, OtherEofToken, ShortEofToken}}
       \cup {Header(OK, "FULLRESYNC", OK, "SIZE", <<>>, n) : n \in {0, 3, 5}}
       \cup {Header(OK, "CONTINUE", OK, "", <<>>, 0),
             Header(OK, "bad", OK, "", <<>>, 0),
             Header(OK, "FULLRESYNC", OK, "bad", <<>>, 0),
             Header(OK, "FULLRESYNC", connection_reset, "", <<>>, 0),
             HeaderBroken}
       \cup {HeaderPlus(dest) : dest \in PSyncResponses}

\* the streams of a master: the bytes the loader consumes, what it holds
\* beyond the body and what the socket gives next (nothing, a part of the
\* token, the token, another token, the token and a byte more), whether
\* bytes read with the header stay unused
PSyncLoads ==
  LET TokenHead == SubSeq(EofToken, 1, 10)
      TokenTail == SubSeq(EofToken, 11, kRdbEofMarkSize)
      Leftovers == {<<>>, <<0>>, TokenHead, EofToken, OtherEofToken, EofToken \o <<0>>}
      Rests == {<<>>, TokenTail, EofToken, OtherEofToken, EofToken \o <<0>>}
  IN {Loaded(OK, n, lo, rs, pu) :
        n \in {2, 3, 5}, lo \in Leftovers, rs \in Rests, pu \in BOOLEAN}
       \cup {LoadBroken}

\* the read InitiatePSync waits in completes
PSyncArrives ==
  /\ fb \in {"psync_header", "psync_load", "sleep50"}
  /\ ~io.done
  /\ \E res \in (CASE sock_ # "open" -> Completions(fb)
                  [] sock_ = "open" /\ fb = "psync_header" -> PSyncHeaders
                  [] sock_ = "open" /\ fb = "psync_load" -> PSyncLoads
                  [] OTHER -> Completions(fb)) :
       io' = [done |-> TRUE, res |-> res]
  /\ UNCHANGED <<serverVars, perr, state_mask_, is_paused_, sock_, fb, fb_ec, master_context_,
                 num_df_flows_, repl_offs_, last_ack, ack_sent_at, sent, stop_pc,
                 shard_flows_, flow_pos, dfly_ec, repl_header>>

\* the supervisor, greeted by a legacy master, has sent PSYNC
InitPSync ==
  /\ InitServer
  /\ time_arg = <<>>
  /\ load_pc = "done"
  /\ save_spec = nullopt
  /\ faults = FALSE
  /\ dir = DataDir
  /\ state_mask_ = {R_ENABLED, R_TCP_CONNECTED, R_GREETED}
  /\ is_paused_ = FALSE
  /\ sock_ = "open"
  /\ fb = "psync_header"
  /\ io = Pending
  /\ fb_ec = OK
  /\ master_context_ = NoContext
  /\ num_df_flows_ = 0
  /\ repl_offs_ = 0
  /\ repl_header = [kind |-> "size", token |-> <<>>, size |-> 0]
  /\ last_ack = 0
  /\ ack_sent_at = 0
  /\ sent = <<PsyncCommand(NoContext, 0)>>
  /\ stop_pc = "none"
  /\ shard_flows_ = <<>>
  /\ flow_pos = <<>>
  /\ dfly_ec = OK
  /\ perr = FALSE

NextPSync ==
  \/ PSyncArrives
  \/ PSyncHeader
  \/ PSyncLoaded
  \/ SyncSlept
  \/ Stop

SpecPSync == InitPSync /\ [][NextPSync]_vars

(* InitiateDflySync on its own, against every reply to DFLY FLOW and every
   end of a flow's stream *)

\* the supervisor, greeted by a native master that announced one flow or
\* MaxFlows, enters InitiateDflySync
InitFlows ==
  /\ InitServer
  /\ time_arg = <<>>
  /\ load_pc = "done"
  /\ save_spec = nullopt
  /\ faults = FALSE
  /\ dir = DataDir
  /\ state_mask_ = {R_ENABLED, R_TCP_CONNECTED, R_GREETED}
  /\ is_paused_ = FALSE
  /\ sock_ = "open"
  /\ fb = "dfly_flows"
  /\ io = Pending
  /\ fb_ec = OK
  /\ master_context_ = [master_repl_id |-> MasterId, dfly_session_id |-> SessionId]
  /\ num_df_flows_ \in {1, MaxFlows}
  /\ repl_offs_ = 0
  /\ repl_header = [kind |-> "size", token |-> <<>>, size |-> 0]
  /\ last_ack = 0
  /\ ack_sent_at = 0
  /\ sent = <<>>
  /\ stop_pc = "none"
  /\ shard_flows_ = [i \in 0 .. num_df_flows_ - 1 |-> NewFlow]
  /\ flow_pos = [t \in Threads |-> 0]
  /\ dfly_ec = OK
  /\ perr = FALSE

\* the reply to DFLY SYNC arrives
DflySyncArrives == IoComplete /\ fb = "dfly_sync"

NextFlows ==
  \/ \E t \in Threads : StartFlow(t)
  \/ DflyFlowsDone
  \/ DflySyncArrives
  \/ DflySynced
  \/ \E i \in 0 .. MaxFlows - 1 : FlowLoaded(i)
  \/ DflyStreamStart
  \/ Stop

SpecFlows == InitFlows /\ [][NextFlows]_vars

(* ------------------------- properties of DoSave ----------------------- *)

\* caller p is inside DoSave, past the state gate
PastGate(p) == pc[p] \in {"start", "open", "hop", "body", "close", "restore"}

\* this step is caller p calling DoSave and getting past CreateDirs
ReachesGate(p) ==
  /\ pc[p] = "exec"
  /\ cmd[p].name \in {"SAVE", "BGSAVE"}
  /\ Len(cmd[p].args) <= 1 \/ (Len(cmd[p].args) = 2 /\ ToUpper(cmd[p].args[2]) = "DF")
  /\ pc'[p] # "exec"
  /\ sv'[p].ec # E_CREATE_DIR

\* this step is caller p returning from DoSave past the gate
ReturnsPastGate(p) == pc[p] = "restore" /\ pc'[p] = "ret"

\* this step is caller p reaching the end of DoSave's body with error code ec = OK or not
Finishes(p) == pc[p] = "close" /\ pc'[p] = "restore"

\* C1: at most one DoSave is past the state gate at any time, and a DoSave
\* that reaches the gate while global_state is SAVING returns
\* operation_in_progress
C1_OneSaveAtATime ==
  [][ /\ Cardinality({p \in Procs : PastGate(p)}') <= 1
      /\ \A p \in Procs :
           ReachesGate(p) /\ global_state = "SAVING"
             => pc'[p] = "ret" /\ sv'[p].ec = E_IN_PROGRESS ]_vars

\* C2: a DoSave that got past the gate leaves global_state ACTIVE when it
\* returns, on every exit path, and global_state is not SAVING when no
\* DoSave is past the gate
C2_StateRestored ==
  [][ /\ \A p \in Procs : ReturnsPastGate(p) => global_state' = "ACTIVE"
      /\ (\A p \in Procs : ~PastGate(p))' => global_state' # "SAVING" ]_vars

\* a legacy DoSave returned from its failed open, and the state is ACTIVE
C2_Witness ==
  \E p \in Procs : pc[p] = "ret" /\ sv[p].ec = E_OPEN /\ global_state = "ACTIVE"

\* C3: a DoSave that observes SAVING or LOADING at the gate is rejected and
\* changes nothing: the state keeps the observed value, nothing is opened or
\* scheduled, LastSaveInfo and is_saving_ are unchanged, the code is
\* operation_in_progress and err_details is '<STATE> - can not save database'
C3_RejectedChangesNothing ==
  [][ \A p \in Procs :
        ReachesGate(p) /\ global_state \in {"SAVING", "LOADING"}
          => /\ pc'[p] = "ret"
             /\ sv'[p].ec = E_IN_PROGRESS
             /\ sv'[p].err_details = global_state \o " - can not save database"
             /\ sv'[p].snapshots = NoSnapshots
             /\ UNCHANGED <<global_state, last_save_info_, is_saving_, txq, hop, file>> ]_vars

\* C4: LastSaveInfo holds the start time until a DoSave succeeds; it changes
\* only at the end of a DoSave whose error code is clear; when a DoSave
\* returns success LastSaveInfo holds that DoSave's timestamp and file name;
\* a DoSave that ends with an error leaves it as it was; LASTSAVE replies its
\* save_time
C4_LastSaveInfo ==
  /\ last_save_info_ = [save_time |-> start_time_, file_name |-> <<>>]
  /\ [][ /\ last_save_info_' # last_save_info_
              => \E p \in Procs : Finishes(p) /\ sv[p].ec = OK
         /\ \A p \in Procs :
              ReturnsPastGate(p) /\ sv[p].ec = OK
                => last_save_info_' =
                     [save_time |-> sv[p].now,
                      file_name |-> SavePath(sv[p].new_version, sv[p].now)]
         /\ \A p \in Procs :
              Finishes(p) /\ sv[p].ec # OK => UNCHANGED last_save_info_
         /\ \A p \in Procs :
              pc[p] = "exec" /\ cmd[p].name = "LASTSAVE" /\ pc'[p] = "ret"
                => sv'[p].reply = <<last_save_info_.save_time>> ]_vars

\* C5: with a clock that never goes back, LastSaveInfo.save_time never
\* decreases
C5_SaveTimeMonotone ==
  [][ last_save_info_'.save_time >= last_save_info_.save_time ]_vars

(* ---------------------- properties of transactions -------------------- *)

\* the saver of index i of caller p has written its body
BodyWritten(p, i) ==
  /\ sv[p].snapshots[i] = "started"
  /\ sv[p].ec = OK
  /\ (pc[p] = "body" /\ i \in sv[p].stage) \/ pc[p] = "close"

\* C6: the snapshot a DoSave writes holds, for each shard, exactly the
\* content of that shard at the instant DoSave's hop ran there: what was
\* committed before the hop is in it, what is committed after is not
C6_SnapshotCutAtHop ==
  \A p \in Procs : \A i \in ShardIds :
    BodyWritten(p, i)
      => \A s \in SaverShards(sv[p].new_version, i) :
           /\ hop_db[p][s] # <<>>
           /\ file[p][s] = hop_db[p][s]

\* a body was written that holds a write committed before the hop, while the
\* shard by now holds a write committed after it
C6_Witness ==
  \E p \in Procs : \E i \in ShardIds :
    /\ BodyWritten(p, i)
    /\ \E s \in SaverShards(sv[p].new_version, i) :
         /\ file[p][s] # <<>>
         /\ file[p][s][1] # {}
         /\ db[s] \ file[p][s][1] # {}

\* a write or a flush of caller p is under way
TxInFlight(p) == pc[p] \in {"write", "flush_sched", "flush_exec"}

\* every write in the content is there on each shard owning its keys
Whole(content) ==
  \A s \in ShardIds : \A t \in content[s] : \A s2 \in t[2] : t \in content[s2]

NotWhileLoading ==
  {"SAVE", "BGSAVE", "FLUSHDB", "FLUSHALL", "REPLICAOF", "SLAVEOF", "CONFIG",
   "SCRIPT", "DFLY"}

\* C8: while global_state is LOADING every command in execution is
\* registered with the LOADING flag; SAVE, BGSAVE, FLUSHDB, FLUSHALL,
\* REPLICAOF, SLAVEOF, CONFIG, SCRIPT and DFLY are not in execution, and no
\* DoSave is past its gate
C8_OnlyLoadingCommands ==
  global_state = "LOADING"
    => /\ \A p \in Clients :
            pc[p] \notin {"idle", "ret"}
              => /\ "LOADING" \in CommandFlags(cmd[p].name)
                 /\ cmd[p].name \notin NotWhileLoading
       /\ \A p \in Procs : ~PastGate(p)

\* a SAVE was turned away while the server loads
C8_Witness ==
  /\ global_state = "LOADING"
  /\ \E p \in Clients :
       /\ pc[p] = "ret"
       /\ cmd[p].name = "SAVE"
       /\ sv[p].reply = <<"ERR", "Can not execute during LOADING">>

(* ------------------- properties of the save schedule ------------------ *)

DigitChars == <<"0", "1", "2", "3", "4", "5", "6", "7", "8", "9">>
IsDigit(c) == \E d \in 1 .. 10 : DigitChars[d] = c
DigitOf(c) == (CHOOSE d \in 1 .. 10 : DigitChars[d] = c) - 1

\* the value of a one- or two-character nibble with every '*' read as 0
MinValue(s) ==
  LET V(c) == IF c = "*" THEN 0 ELSE DigitOf(c)
  IN IF Len(s) = 1 THEN V(s[1]) ELSE 10 * V(s[1]) + V(s[2])

\* time is hh:mm split at position i, as the claim describes an accepted string
SplitsAt(time, i) ==
  /\ time[i] = ":"
  /\ LET hh == SubSeq(time, 1, i - 1)
         mm == SubSeq(time, i + 1, Len(time))
     IN /\ Len(hh) \in {1, 2}
        /\ Len(mm) = 2 \/ mm = <<"*">>
        /\ \A k \in 1 .. Len(hh) : hh[k] = "*" \/ IsDigit(hh[k])
        /\ \A k \in 1 .. Len(mm) : mm[k] = "*" \/ IsDigit(mm[k])
        /\ MinValue(hh) <= 23
        /\ MinValue(mm) <= 59

\* C9: ParseSaveSchedule accepts a string exactly when it is HH:MM with HH of
\* one or two characters, MM of two characters or the single '*', every
\* character a digit or '*', and the hour and the minute with '*' read as 0
\* at most 23 and 59; it then returns the two parts
C9_ParseAccepts ==
  parse_result.called
    => IF \E i \in 1 .. Len(time_arg) : SplitsAt(time_arg, i)
       THEN \E i \in 1 .. Len(time_arg) :
              /\ SplitsAt(time_arg, i)
              /\ parse_result.value = [hour_spec |-> SubSeq(time_arg, 1, i - 1),
                                       minute_spec |-> SubSeq(time_arg, i + 1, Len(time_arg))]
       ELSE parse_result.value = nullopt

\* 23:56, the largest hour, was parsed and accepted
C9_Witness ==
  /\ parse_result.called
  /\ time_arg = <<"2", "3", ":", "5", "6">>
  /\ parse_result.value = [hour_spec |-> <<"2", "3">>, minute_spec |-> <<"5", "6">>]

\* every character of spec s that is not '*' equals the digit of v it is
\* right-aligned with
DigitsAgree(s, v) ==
  \A i \in 1 .. Len(s) :
    s[i] = "*" \/ DigitOf(s[i]) = (v \div (10 ^ (Len(s) - i))) % 10

HourOf(now) == (now \div 3600) % 24
MinuteOf(now) == (now \div 60) % 60

\* C10, as stated: DoesTimeMatchSpecifier is true exactly when every
\* character of the hour and minute specs that is not '*' equals the
\* right-aligned digit of the hour and the minute, a one-character hour spec
\* such as "5" matching a two-digit hour such as 15
C10_AsStated ==
  match.called
    => (match.result
          <=> /\ DigitsAgree(parse_result.value.hour_spec, HourOf(match.now))
              /\ DigitsAgree(parse_result.value.minute_spec, MinuteOf(match.now)))

\* a nibble matches when it is the single '*', or when its digits agree and
\* the value has no non-zero digit left of the spec
NibbleMatches(s, v) ==
  s = <<"*">> \/ (DigitsAgree(s, v) /\ v \div (10 ^ Len(s)) = 0)

\* C10, amended: DoesTimeMatchSpecifier is true exactly when, for the hour
\* and for the minute, the spec is the single '*' or every character that is
\* not '*' equals the right-aligned digit and every digit of the value left
\* of the spec is 0: the hour spec "5" matches hour 5 and not hour 15
C10_MatchesDigits ==
  match.called
    => (match.result
          <=> /\ NibbleMatches(parse_result.value.hour_spec, HourOf(match.now))
              /\ NibbleMatches(parse_result.value.minute_spec, MinuteOf(match.now)))

\* the spec 5:* was tested against a time of hour 15 and did not match
C10_Witness ==
  /\ match.called
  /\ parse_result.value = [hour_spec |-> <<"5">>, minute_spec |-> <<"*">>]
  /\ HourOf(match.now) = 15
  /\ ~match.result

(* --------------------- properties of the scheduler -------------------- *)

\* this step is the scheduler going on to call DoSave
SchedulerStarts == pc[Sched] = "idle" /\ pc'[Sched] = "exec"

MinuteOfTime(t) == t \div 60

\* C11: the scheduler calls DoSave only on a tick whose time matches the spec
\* and whose minute differs from the minute of LastSaveInfo.save_time; after
\* a successful save, manual or scheduled, in minute M it starts no further
\* save in minute M, and it starts none in the minute the server was started
C11_SchedulerGuard ==
  [][ SchedulerStarts
        => /\ DoesTimeMatchSpecifier(save_spec, clock)
           /\ MinuteOfTime(clock) # MinuteOfTime(last_save_info_.save_time)
           /\ MinuteOfTime(clock) \notin saved_minutes
           /\ MinuteOfTime(clock) # MinuteOfTime(start_time_) ]_vars

\* C12: when a scheduled DoSave failed, the scheduler does not attempt again
\* within the minute of the failed attempt
C12_AsStated ==
  [][ SchedulerStarts => MinuteOfTime(clock) \notin sched_failed ]_vars

\* C12 as amended: a scheduled DoSave that fails leaves LastSaveInfo as it
\* was, and the scheduler attempts again on a later tick, 20 seconds or more
\* after the failed DoSave returned, that matches the schedule and whose
\* minute differs from the minute of LastSaveInfo.save_time: the minute of
\* the failed attempt is not excluded
C12_RetryAfterFailure ==
  [][ /\ pc'[Sched] # pc[Sched] /\ sv'[Sched].ec # OK => UNCHANGED last_save_info_
      /\ SchedulerStarts /\ sched_failed # {}
           => /\ DoesTimeMatchSpecifier(save_spec, clock)
              /\ MinuteOfTime(clock) # MinuteOfTime(last_save_info_.save_time)
              /\ clock >= sched_wait + ClockStep ]_vars

\* the scheduler attempts again in the minute of its failed attempt
C12_Witness ==
  /\ pc[Sched] = "exec"
  /\ MinuteOfTime(sched_now) \in sched_failed

\* C13: once Shutdown has fired the done-notification the scheduler begins
\* no further iteration that saves (its only test of the notification is
\* WaitFor: the DoSave of an iteration whose WaitFor had timed out is one in
\* progress), Shutdown's join returns only when the fiber has left its loop,
\* and eventually the fiber has left its loop and the join has returned
C13_SchedulerStops ==
  /\ [][ is_snapshot_done_ => ~SchedulerStarts ]_vars
  /\ [](shutdown_pc = "done" => pc[Sched] = "exited")
  /\ (is_snapshot_done_ ~> (pc[Sched] = "exited" /\ shutdown_pc = "done"))

\* the join returned, the scheduler having left its loop after a DoSave of
\* its own had failed
C13_Witness ==
  /\ shutdown_pc = "done"
  /\ pc[Sched] = "exited"
  /\ sched_failed # {}

(* ---------------------- properties of the replica --------------------- *)

GreetReturns == fb = "greet" /\ fb' # "greet"

\* the replies the handshake expects: PONG, OK, and for the last command a
\* single OK or master id of 40 characters, sync id and a flow count in 1..1024
IsPong(x) == x.ec = OK /\ x.resp_args = <<StringExpr(PONG)>>
IsOk(x) == x.ec = OK /\ x.resp_args = <<StringExpr(OKSTR)>>
IsNative(x) ==
  /\ x.ec = OK
  /\ Len(x.resp_args) = 3
  /\ x.resp_args[1].type = "STRING" /\ Len(x.resp_args[1].buf) = 40
  /\ x.resp_args[2].type = "STRING"
  /\ x.resp_args[3].type = "INT64" /\ x.resp_args[3].u \in 1 .. 1024
Handshake(x) == IsPong(x[1]) /\ IsOk(x[2]) /\ (IsOk(x[3]) \/ IsNative(x[3]))

\* a reply arrived that is not the expected one: the first exchange that
\* departs from the handshake was read without an I/O error
OtherReply(x) ==
  \/ x[1].ec = OK /\ ~IsPong(x[1])
  \/ IsPong(x[1]) /\ x[2].ec = OK /\ ~IsOk(x[2])
  \/ IsPong(x[1]) /\ IsOk(x[2]) /\ x[3].ec = OK /\ ~(IsOk(x[3]) \/ IsNative(x[3]))

Commands(seq) == {seq[i] : i \in DOMAIN seq}

\* C15: Greet sets R_GREETED only after PING was answered with PONG, then
\* 'REPLCONF capa eof capa psync2' with OK, then 'REPLCONF capa dragonfly'
\* with a single OK or a 3-element reply (40-character master id, sync id,
\* integer flow count in 1..1024), each command sent only after the reply
\* before it was accepted; any other reply makes Greet fail with bad_message,
\* R_GREETED stays clear and master_repl_id, dfly_session_id and
\* num_df_flows_ are unchanged
C15_GreetHandshake ==
  [][ GreetReturns =>
        LET x == io.res IN
          /\ R_GREETED \in state_mask_' =>
                /\ Handshake(x)
                /\ SubSeq(sent', 1, 3) = <<PING, REPLCONF_CAPA_EOF, REPLCONF_CAPA_DRAGONFLY>>
          /\ REPLCONF_CAPA_EOF \in Commands(sent') => IsPong(x[1])
          /\ REPLCONF_CAPA_DRAGONFLY \in Commands(sent') => IsPong(x[1]) /\ IsOk(x[2])
          /\ sent'[1] = PING
          /\ OtherReply(x) =>
                /\ fb_ec' = bad_message
                /\ R_GREETED \notin state_mask_'
                /\ UNCHANGED <<master_context_, num_df_flows_>> ]_vars

\* a native master announcing 1024 flows was greeted
C15_Witness ==
  /\ fb = "dfly_flows"
  /\ R_GREETED \in state_mask_
  /\ num_df_flows_ = MaxFlowCount
  /\ master_context_.master_repl_id = MasterId

\* the stream of a full sync ended where the header announced: after the
\* body come 40 bytes equal to the EOF token and nothing else was buffered,
\* or the declared number of bytes was consumed and nothing else was buffered
EndsAsAnnounced(fullsync, l) ==
  /\ l.ec = OK
  /\ ~l.prefix_unused
  /\ IF fullsync.kind = "token"
     THEN LET data == l.leftover \o l.rest IN
          /\ Len(fullsync.token) = 40
          /\ Len(data) >= 40
          /\ \A i \in 1 .. 40 : data[i] = fullsync.token[i]
          /\ Len(l.leftover) <= 40
     ELSE /\ l.bytes_read = fullsync.size
          /\ l.leftover = <<>>

\* C16: a legacy full sync sets R_SYNC_OK only if the stream ended exactly
\* where announced: in diskless mode the body is followed by exactly 40 bytes
\* equal to the EOF token of the header with no unconsumed bytes left, in
\* disk-based mode exactly the declared number of bytes was consumed; a
\* stream that violates this never leads to R_SYNC_OK
C16_FullSyncEndsAsAnnounced ==
  /\ [][ fb = "psync_load" /\ R_SYNC_OK \in state_mask_' =>
           EndsAsAnnounced(repl_header, io.res) ]_vars
  /\ [][ fb = "psync_load" /\ io.done /\ ~EndsAsAnnounced(repl_header, io.res) =>
           R_SYNC_OK \notin state_mask_' /\ fb' \notin {"stream_ack0", "redis_stream"} ]_vars
  /\ [](R_SYNC_OK \in state_mask_ /\ fb = "sleep50" => fb_ec = OK)

\* a diskless full sync ended well and R_SYNC_OK was set
C16_Witness ==
  /\ fb = "sleep50"
  /\ R_SYNC_OK \in state_mask_
  /\ repl_header = FullsyncToken(EofToken)

\* StartFlow was called for flow i and returned no error
FlowStarted(i) ==
  /\ shard_flows_[i].thread \in Threads
  /\ shard_flows_[i].ec = OK
  /\ shard_flows_[i].state_mask_ = {R_ENABLED, R_TCP_CONNECTED}
AllFlowsStarted ==
  /\ DOMAIN shard_flows_ = 0 .. num_df_flows_ - 1
  /\ \A i \in DOMAIN shard_flows_ : FlowStarted(i)
SomeFlowFailed == \E i \in DOMAIN shard_flows_ : shard_flows_[i].ec # OK

DflySyncCommand == <<"DFLY", "SYNC", master_context_.dfly_session_id>>

FlowsPhaseEnds == fb = "dfly_flows" /\ fb' # "dfly_flows"

\* flow i was started once, on thread i mod num_threads
StartedOnItsThread(i) ==
  /\ shard_flows_[i].starts = 1
  /\ shard_flows_[i].thread = i % NumThreads
  /\ shard_flows_[i].sock_ = "open"

\* C18 as stated: when the start phase ends, each of the flows 0..n-1 was
\* started once, on thread i mod num_threads, and sent its DFLY FLOW command
C18_AsStated ==
  [][ FlowsPhaseEnds =>
        \A i \in 0 .. num_df_flows_ - 1 :
          /\ StartedOnItsThread(i)
          /\ shard_flows_[i].sent = <<FlowCommand(master_context_, i)>> ]_vars

\* an earlier flow of the thread of flow i failed to start
EarlierFlowFailed(i) ==
  \E j \in 0 .. i - 1 : j % NumThreads = i % NumThreads /\ shard_flows_[j].ec # OK

\* C18: for a native master that announced n flows the replica creates the
\* flows 0..n-1; no flow id is started twice; a started flow i runs on thread
\* i mod num_threads on its own connection and, once connected, sends
\* 'DFLY FLOW <master_repl_id> <dfly_session_id> <i>' and nothing else; a flow
\* id is skipped only if an earlier flow of its thread failed to start, so
\* when no StartFlow fails exactly the n flows are started
C18_FlowsStarted ==
  /\ [](fb = "dfly_flows" =>
          /\ num_df_flows_ \in 1 .. MaxFlowCount
          /\ DOMAIN shard_flows_ = 0 .. num_df_flows_ - 1
          /\ \A i \in DOMAIN shard_flows_ :
               /\ shard_flows_[i].starts <= 1
               /\ shard_flows_[i].starts = 1 =>
                    /\ StartedOnItsThread(i)
                    /\ \/ shard_flows_[i].sent = <<FlowCommand(master_context_, i)>>
                       \/ shard_flows_[i].sent = <<>> /\ shard_flows_[i].ec # OK
               /\ shard_flows_[i].starts = 0 => shard_flows_[i] = NewFlow)
  /\ [][ FlowsPhaseEnds =>
           \A i \in 0 .. num_df_flows_ - 1 :
             /\ shard_flows_[i].starts = 0 => EarlierFlowFailed(i)
             /\ ~SomeFlowFailed =>
                  /\ StartedOnItsThread(i)
                  /\ shard_flows_[i].sent = <<FlowCommand(master_context_, i)>> ]_vars

\* the start phase of a master with more flows than threads has ended with
\* every flow started
C18_Witness ==
  /\ fb = "dfly_sync"
  /\ num_df_flows_ = MaxFlows
  /\ \A i \in 0 .. MaxFlows - 1 :
       StartedOnItsThread(i) /\ shard_flows_[i].sent = <<FlowCommand(master_context_, i)>>

\* an iteration of ConsumeRedisStream's loop whose Recv returned bytes
IterationRuns == fb = "redis_stream" /\ io.done /\ io.res.ec = OK /\ ~io'.done

\* the offset of the last REPLCONF ACK sent, and whether this iteration
\* sends one for the new offset
LastAcked == sent[Len(sent)][3]
AckSentNow == sent' = Append(sent, <<"REPLCONF", "ACK", repl_offs_'>>)

\* C19: during legacy streaming the replica first sends 'REPLCONF ACK 0',
\* advances repl_offs_ by the bytes received on every loop iteration, and
\* sends 'REPLCONF ACK <repl_offs_>' on an iteration exactly when more than
\* 1024 bytes were received since the last acknowledged offset or more than
\* 5 seconds passed since the last ACK was sent
C19_AckPolicy ==
  /\ [](fb \in {"stream_ack0", "redis_stream"} => sent[1] = <<"REPLCONF", "ACK", 0>>)
  /\ [][ IterationRuns =>
           /\ repl_offs_' = repl_offs_ + io.res.size
           /\ AckSentNow \/ sent' = sent
           /\ AckSentNow <=> \/ repl_offs_' - LastAcked > 1024
                             \/ clock - ack_sent_at > 5 ]_vars

\* the supervisor begins a connection attempt
ConnectAttempt == fb # "connect" /\ fb' = "connect"

\* a received part of the stream waits to be consumed while the replica is
\* paused
PausedWithInput == is_paused_ /\ fb = "redis_stream" /\ io.done

\* C20: while the replica is paused and has no TCP connection the supervisor
\* begins no connection attempt, and once unpaused it attempts again; Pause
\* changes nothing of an established link, and the supervisor goes on
\* consuming the stream while paused
C20_Pause ==
  /\ [][ ConnectAttempt => ~is_paused_ /\ R_TCP_CONNECTED \notin state_mask_ ]_vars
  /\ (~is_paused_ /\ fb = "sleep500") ~> (fb = "connect" \/ is_paused_)
  /\ [][ is_paused_' # is_paused_ =>
           UNCHANGED <<state_mask_, sock_, fb, io, sent, repl_offs_, shard_flows_, stop_pc>> ]_vars
  /\ PausedWithInput ~> ~PausedWithInput

\* a replica that lost its link after consuming a part of the stream is
\* paused and wakes from its sleep without a TCP connection
C20_Witness ==
  /\ is_paused_
  /\ fb = "sleep500"
  /\ io.done
  /\ R_ENABLED \in state_mask_
  /\ R_TCP_CONNECTED \notin state_mask_
  /\ repl_offs_ > 0

(* ------------------------------ C21 ----------------------------------- *)

StopCalled == stop_pc # "none"
StopReturned == stop_pc = "done"

\* C21: Replica::Stop always returns, also when it is called while the
\* supervisor sleeps before a reconnect or joins its flow fibers, and once it
\* has returned the supervisor fiber and every flow fiber have terminated
C21_StopReturns ==
  /\ (StopCalled ~> StopReturned)
  /\ [](StopReturned => fb = "done" /\ Joinable(shard_flows_) = {})

(* ------------------------------ C26 ----------------------------------- *)

\* the fiber is in an exchange with the master: it sent a command or waits
\* for a reply, on the main link or on a flow's
Exchanging ==
  fb \in {"greet", "psync_header", "psync_load", "dfly_flows", "dfly_sync", "dfly_synced",
          "stream_ack0", "redis_stream", "dfly_stream"}

\* C26: after a protocol error in the handshake, the sync or the stream, the
\* replica has no exchange with the master on the connection on which the
\* error occurred: the next one is on the connection that ConnectSocket
\* establishes after the 500 ms sleep
C26_ErrorResetsConnection ==
  /\ [](perr => ~Exchanging)
  /\ [][ (perr /\ ~perr') => (fb = "sleep500" /\ fb' = "connect") ]_vars

(* ------------------------------ C28 ----------------------------------- *)

\* the step in which the native full sync reaches R_SYNC_OK
ReachesSyncOk ==
  /\ IsDfly(master_context_)
  /\ R_SYNC_OK \notin state_mask_
  /\ R_SYNC_OK \in state_mask_'

NoOneOnMaster(p) == pc[p] = "no_locked" /\ is_master[ThreadOf(p)] /\ pc'[p] # "no_locked"

\* C22: REPLICAOF NO ONE on an instance that is already master replies OK and
\* changes nothing: is_master is and stays true on every reactor thread,
\* replica_ is and stays null, no transaction is scheduled, no hop is run and
\* the databases are untouched, in the step that takes the mutex and in the
\* step that tests the role and replies
C22_NoOneOnMaster ==
  /\ [][ \A p \in Clients :
           (pc[p] = "exec" /\ pc'[p] = "no_locked")
             => (UNCHANGED <<is_master, replica_, txq, hop, db, fanout, sv, replicaVars>>) ]_vars
  /\ [][ \A p \in Clients :
           NoOneOnMaster(p)
             => (/\ pc'[p] = "ret"
                 /\ sv'[p].reply = <<"OK">>
                 /\ \A t \in Threads : is_master[t] /\ is_master'[t]
                 /\ replica_ = "null" /\ replica_' = "null"
                 /\ replicaof_mu_' = "none"
                 /\ UNCHANGED <<txq, hop, db, fanout, crash, replicaVars>>) ]_vars

C22_Witness ==
  /\ pc["c1"] = "ret"
  /\ IsNoOne(cmd["c1"].args)
  /\ sv["c1"].reply = <<"OK">>
  /\ fb = "run_failed"
  /\ replica_ = "null"
  /\ \A t \in Threads : is_master[t]
  /\ \E s \in ShardIds : db[s] # {}


\* p is between the lock and the unlock of replicaof_mu_ in ReplicaOf or in
\* PauseReplication
InCritical(p) ==
  pc[p] \in {"no_locked", "no_fan", "no_stop", "ro_locked", "ro_stop", "ro_fan", "ro_sched",
             "ro_flush", "ro_run", "ro_role", "pause_locked"}

\* C23: at any time at most one Replica of the instance has a running
\* supervisor fiber: no Replica is replaced or released while its supervisor
\* runs; when REPLICAOF host port swaps a Replica out, and when the new one is
\* run, Stop has returned on the old one and its fiber and its flows' fibers
\* have ended; and REPLICAOF, REPLICAOF NO ONE, PauseReplication and Shutdown
\* are inside their critical sections one at a time, the one that holds
\* replicaof_mu_
C23_OneSupervisor ==
  /\ [](orphans = 0)
  /\ [](\A p \in Clients : InCritical(p) => replicaof_mu_ = p)
  /\ [](shutdown_pc \in {"locked", "stop"} => replicaof_mu_ = "shutdown")
  /\ [][ \A p \in Clients :
           (pc[p] \in {"ro_stop", "ro_fan"} /\ pc'[p] = "ro_sched" /\ replica_ # "null")
             => (stop_pc = "done" /\ ~FiberLive /\ Joinable(shard_flows_) = {}
                 /\ fb' = "none" /\ stop_pc' = "none") ]_vars
  /\ [][ (fb = "none" /\ fb' # "none")
           => (orphans = 0 /\ \E p \in Clients : pc[p] = "ro_run" /\ replicaof_mu_ = p) ]_vars

C23_Witness ==
  /\ pc["c2"] = "ro_stop"
  /\ replicaof_mu_ = "c2"
  /\ stop_pc = "done"
  /\ fb = "done"
  /\ shard_flows_ # <<>>
  /\ pc["c1"] = "exec"
  /\ cmd["c1"].name = "REPLICAOF"
  /\ shutdown_pc = "done"


\* the step in which ReplicaOf of p takes up Run's result, Run having failed
RunFailedFor(p) == pc[p] = "ro_run" /\ pc'[p] = "ro_role" /\ fb = "run_failed"

\* the return of a REPLICAOF host port of p whose Run failed
FailedReturn(p) == pc[p] = "ro_role" /\ pc'[p] = "ret" /\ fb = "run_failed"

\* C24 as stated: if Run fails during REPLICAOF host port the Replica is
\* dropped and is_master remains false on every reactor thread
C24_NoRollback ==
  [][ \A p \in Clients :
        FailedReturn(p) => (replica_' = "null" /\ \A t \in Threads : ~is_master'[t]) ]_vars

\* C24: if Run fails during REPLICAOF host port (connect or greet error) the
\* Replica is dropped, an error is replied, and the instance is rolled back
\* to master mode: is_master = true is fanned out, and when the handler
\* returns is_master is true on every reactor thread and there is no Replica
C24_RolledBack ==
  /\ [][ \A p \in Clients :
           RunFailedFor(p)
             => (/\ replica_' = "null"
                 /\ sv'[p].reply[1] = "ERR"
                 /\ fanout' = [value |-> TRUE, left |-> Threads]) ]_vars
  /\ [][ \A p \in Clients :
           FailedReturn(p)
             => (/\ replica_' = "null"
                 /\ replicaof_mu_' = "none"
                 /\ \A t \in Threads : is_master'[t]) ]_vars

C24_Witness ==
  /\ pc["c1"] = "ret"
  /\ cmd["c1"].name = "REPLICAOF"
  /\ ValidPort(cmd["c1"].args[3])
  /\ sv["c1"].reply[1] = "ERR"
  /\ fb = "run_failed"
  /\ sock_ = "open"
  /\ replica_ = "null"
  /\ \A t \in Threads : is_master[t]


\* the flush of p's REPLICAOF has run on shard s and the handler has not
\* returned
Flushed(p, s) == (pc[p] = "ro_flush" /\ s \in hop[p].ran) \/ pc[p] \in {"ro_run", "ro_role"}

\* C25 as stated: after a REPLICAOF whose Run fails every database on every
\* shard is empty
C25_EmptyAfterFailedRun ==
  [][ \A p \in Clients : FailedReturn(p) => \A s \in ShardIds : db'[s] = {} ]_vars

\* C25: REPLICAOF host port flushes all databases on every shard in a global
\* transaction before the new Replica makes its first connection attempt:
\* the hop of its transaction empties the shard's databases, Run is called
\* only when the hop has run on every shard, and until then the new Replica
\* has no socket; from the flush of a shard on, its databases change only by
\* the writes of other connections, so that after a REPLICAOF whose Run fails
\* every database holds nothing but what other connections wrote since
C25_FlushedBeforeRun ==
  /\ [][ \A p \in Clients : \A s \in ShardIds :
           (pc[p] = "ro_flush" /\ s \in hop'[p].ran /\ s \notin hop[p].ran) => db'[s] = {} ]_vars
  /\ [][ \A p \in Clients :
           (pc[p] = "ro_flush" /\ pc'[p] = "ro_run")
             => (hop[p].ran = ShardIds /\ fb = "none" /\ sock_ = "null" /\ sent = <<>>) ]_vars
  /\ [][ (sock_ = "null" /\ sock_' # "null") => (\E p \in Clients : pc[p] = "ro_run") ]_vars
  /\ [][ \A p \in Clients : \A s \in ShardIds :
           (Flushed(p, s) /\ db'[s] # db[s])
             => (\E q \in Clients \ {p} :
                   /\ cmd[q].name = "MSET"
                   /\ s \in hop'[q].ran /\ s \notin hop[q].ran
                   /\ db'[s] = db[s] \cup {Token(q)}) ]_vars
  /\ [][ \A p \in Clients :
           FailedReturn(p)
             => (\A s \in ShardIds : \A tok \in db'[s] : tok[1] \in Clients \ {p}) ]_vars

C25_Witness ==
  /\ pc["c1"] = "ret"
  /\ cmd["c1"].name = "REPLICAOF"
  /\ sv["c1"].reply[1] = "ERR"
  /\ fb = "run_failed"
  /\ \A s \in ShardIds :
       /\ hop_db["c1"][s] # <<>>
       /\ hop_db["c1"][s][1] # {}
       /\ db[s] = {}


\* C29: in every reachable state and on every reactor thread, is_master =
\* false implies that replica_ is non-null and has a socket, and the
\* replication section of INFO never dereferences a null Replica nor fails
\* CHECK(sock_) in GetInfo, also while a REPLICAOF host port is in progress
\* on another connection
C29_ReplicaBehindRole ==
  /\ \A t \in Threads : ~is_master[t] => (replica_ # "null" /\ sock_ # "null")
  /\ crash \notin {"null Replica", "CHECK(sock_)"}


\* C30: every read and every write of the shared reference replica_ happens
\* while the accessing fiber holds replicaof_mu_: no access without the mutex
\* is ever noted, and whoever is inside ReplicaOf, PauseReplication or the
\* replica part of Shutdown is the holder
C30_LockedAccess ==
  /\ unlocked = {}
  /\ \A p \in Clients : InCritical(p) => replicaof_mu_ = p


\* the file of snapshot i of DoSave's caller p is open
FileOpen(p, i) == sv[p].snapshots[i] \in {"open", "started"}

\* C27: every file DoSave opens is closed exactly once before DoSave returns,
\* on success and on every error path, in legacy and in native mode: a
\* snapshot gets its file once, by the open of the legacy version or of the
\* shard's hop; Close is called only on a snapshot whose file is open, and
\* only in the close stage; and DoSave returns, and its snapshots are
\* destroyed, only with every snapshot without a file or closed
C27_ClosedOnce ==
  /\ [][ \A p \in Procs : \A i \in ShardIds :
           (sv'[p].snapshots[i] # sv[p].snapshots[i])
             => \/ /\ sv[p].snapshots[i] = "null"
                   /\ FileOpen(p, i)'
                   /\ pc[p] \in {"open", "hop"}
                \/ /\ sv[p].snapshots[i] = "open"
                   /\ sv'[p].snapshots[i] = "started"
                   /\ pc[p] = "hop"
                \/ /\ FileOpen(p, i)
                   /\ sv'[p].snapshots[i] = "closed"
                   /\ pc[p] = "close"
                \/ /\ sv[p].snapshots[i] = "closed"
                   /\ sv'[p].snapshots[i] = "null"
                   /\ pc[p] = "restore" /\ pc'[p] = "ret" ]_vars
  /\ [][ \A p \in Procs :
           (pc[p] \in {"close", "restore"} /\ pc'[p] # pc[p])
             => (\A i \in ShardIds : ~FileOpen(p, i)) ]_vars

C27_Witness ==
  /\ pc["c1"] = "restore"
  /\ sv["c1"].new_version
  /\ sv["c1"].ec = E_HEADER
  /\ sv["c1"].snapshots[0] = "closed"
  /\ sv["c1"].snapshots[1] = "null"
  /\ pc[Sched] = "restore"
  /\ sv[Sched].ec = E_BODY
  /\ sv[Sched].snapshots[0] = "closed"


\* C31 as stated: no fiber is suspended in AwaitFiberOnAll, in Replica::Stop,
\* in the flush transaction or in Replica::Run while it holds replicaof_mu_
C31_NoAwaitUnderMutex ==
  /\ \A p \in Clients : Awaits(p) # "none" => replicaof_mu_ # p
  /\ shutdown_pc = "stop" => replicaof_mu_ # "shutdown"

\* C31: replicaof_mu_ is the critical section of the whole command: REPLICAOF
\* holds it from its lock to its return, across AwaitFiberOnAll,
\* Replica::Stop, the flush transaction and Replica::Run, and Shutdown holds
\* it across Replica::Stop; a handler gives the mutex up only in the step in
\* which it returns or ends the process, and meanwhile every other taker of
\* the mutex stays in front of its lock
C31_HeldAcrossAwaits ==
  /\ [](\A p \in Clients : Awaits(p) # "none" => replicaof_mu_ = p)
  /\ [](shutdown_pc = "stop" => replicaof_mu_ = "shutdown")
  /\ [][ \A p \in Clients :
           (replicaof_mu_ = p /\ replicaof_mu_' # p)
             => (replicaof_mu_' = "none" /\ pc'[p] = "ret") ]_vars
  /\ [][ (replicaof_mu_ = "shutdown" /\ replicaof_mu_' # "shutdown")
           => (replicaof_mu_' = "none" /\ shutdown_pc' = "stopped") ]_vars
  /\ [][ (replicaof_mu_ # "none" /\ replicaof_mu_' # replicaof_mu_)
           => replicaof_mu_' = "none" ]_vars

C31_Witness ==
  /\ Awaits("c1") = "Stop"
  /\ replicaof_mu_ = "c1"
  /\ stop_pc = "join"
  /\ fb \in Blocking
  /\ shutdown_pc = "done"
  /\ pc["c2"] = "exec"
  /\ cmd["c2"].name = "SLAVEOF"


\* the supervisor's Greet returns success on exchanges whose last reply, to
\* REPLCONF capa dragonfly, is the single string OK
GreetedByLegacy ==
  /\ fb = "greet"
  /\ io.done
  /\ fb' # "greet"
  /\ Greet(master_context_, num_df_flows_, io.res).ec = OK
  /\ IsSingleString(io.res[3].resp_args, OKSTR)

\* C32: after every successful Greet whose reply to REPLCONF capa dragonfly is
\* a single OK the sync that follows is InitiatePSync, which sends PSYNC on
\* the main link, also when an earlier Greet of the same Replica was answered
\* by a native master
C32_LegacyAfterSingleOk ==
  [][ GreetedByLegacy
        => (/\ fb' = "psync_header"
            /\ sent'[Len(sent')][1] = "PSYNC"
            /\ shard_flows_' = shard_flows_) ]_vars


\* the master answered PSYNC with '+FULLRESYNC <id> <offset>' followed by a
\* '$EOF:<token>' or '$<size>' line, or with '+CONTINUE'
ProperHeader(h) ==
  /\ h.ec1 = OK
  /\ \/ h.line1 = "CONTINUE"
     \/ h.line1 = "FULLRESYNC" /\ h.ec2 = OK /\ h.line2 \in {"EOF", "SIZE"}

\* InitiatePSync has read the reply to PSYNC and goes on
HeaderRead == fb = "psync_header" /\ io.done /\ fb' # "psync_header"

\* C33: InitiatePSync sets R_SYNC_OK, and starts to load a snapshot, only
\* after the master answered PSYNC with '+FULLRESYNC <id> <offset>' followed
\* by a '$EOF:<token>' or '$<size>' line, or with '+CONTINUE'; after every
\* other reply line, another line starting with '+' included, InitiatePSync
\* returns an error with R_SYNC_OK clear
C33_OnlyProperHeaders ==
  /\ [][ (HeaderRead /\ ~ProperHeader(io.res))
           => (/\ fb' = "sleep50"
               /\ fb_ec' # OK
               /\ state_mask_' = state_mask_) ]_vars
  /\ [][ (HeaderRead /\ (fb' = "psync_load" \/ R_SYNC_OK \in state_mask_'))
           => ProperHeader(io.res) ]_vars
  /\ [][ fb' = "psync_load" => fb \in {"psync_header", "psync_load"} ]_vars

\* C34: a flow launches its loader fiber only if the master's reply to DFLY
\* FLOW named the directive FULL, with the EOF token as second element; after
\* any other reply StartFlow returns an error and launches no fiber
C34_FiberOnlyAfterFull ==
  \A i \in DOMAIN shard_flows_ :
    /\ shard_flows_[i].fb # "none" =>
         shard_flows_[i].ec = OK /\ shard_flows_[i].eof_token = EofToken
    /\ (shard_flows_[i].starts > 0 /\ shard_flows_[i].eof_token # EofToken) =>
         shard_flows_[i].ec # OK /\ shard_flows_[i].fb = "none"

\* C35: in a native sync R_SYNC_OK is set only after the loader fiber of
\* every flow has finished, and only if every flow loaded its stream without
\* an error and found its EOF token at the end of it
C35_SyncOkAfterGoodLoads ==
  R_SYNC_OK \in state_mask_ =>
    \A i \in DOMAIN shard_flows_ :
      /\ shard_flows_[i].fb = "done"
      /\ shard_flows_[i].loaded.ec = OK
      /\ shard_flows_[i].loaded.tail = "token"

\* C36: after Stop has cleared state_mask_ the supervisor fiber makes at most
\* one further connection attempt on the main link (once it has left
\* ConnectSocket it never enters it again), and R_ENABLED is never set again
C36_OneMoreAttempt ==
  /\ [](StopCalled => R_ENABLED \notin state_mask_)
  /\ []((StopCalled /\ fb = "connect") => [](fb # "connect" => [](fb # "connect")))

\* the attempt that is left: Stop was called while the fiber slept, and the
\* fiber has opened a new socket and waits in ConnectSocket
C36_Witness ==
  /\ StopCalled
  /\ fb = "connect"
  /\ sock_ = "open"
  /\ state_mask_ = {}

\* C37: is_saving_ is true only while a DoSave serializes snapshot bodies:
\* when it is true, global_state is SAVING and some DoSave is in its body
\* stage, and it is false whenever no DoSave is past the gate, whatever path
\* the last one returned by
C37_SavingFlag ==
  /\ is_saving_ => global_state = "SAVING"
  /\ is_saving_ => \E p \in Procs : pc[p] = "body"
  /\ (\A p \in Procs : ~PastGate(p)) => ~is_saving_

\* the file name of a snapshot file inside the directory --dir
InsideDir(now, shard) == PathAppendSeparated(dir, ExtendFilename(now, shard, Filename))

\* C38: every snapshot file DoSave creates lies inside --dir: for every
\* non-empty dir, with or without a trailing separator, the path opened is
\* <dir>/<file name>, for the legacy file and for every shard file, and the
\* file name published in LastSaveInfo is that path
C38_FilesInsideDir ==
  dir # NoDir =>
    /\ \A p \in Procs : \A i \in ShardIds :
         sv[p].paths[i] # <<>> =>
           sv[p].paths[i] = InsideDir(sv[p].now, IF sv[p].new_version THEN i ELSE -1)
    /\ last_save_info_.file_name # <<>> =>
         \E shard \in {-1, 0} :
           last_save_info_.file_name = InsideDir(last_save_info_.save_time, shard)

\* a full sync is in progress: InitiatePSync loads the snapshot stream, or
\* the fiber of a flow of InitiateDflySync loads
LegacySyncRunning == fb = "psync_load"
NativeSyncRunning ==
  fb \in {"dfly_flows", "dfly_sync", "dfly_synced"} /\ Joinable(shard_flows_) # {}

\* C39: until Stop is called R_SYNCING is set whenever a full sync is in
\* progress, while InitiatePSync loads the legacy stream and while the flows
\* of a native full sync load, and R_SYNCING is clear whenever no full sync
\* is running
C39_SyncingFlag ==
  /\ (~StopCalled /\ LegacySyncRunning) => R_SYNCING \in state_mask_
  /\ (~StopCalled /\ NativeSyncRunning) => R_SYNCING \in state_mask_
  /\ ~(LegacySyncRunning \/ NativeSyncRunning) => R_SYNCING \notin state_mask_

\* the times of day, one per minute
DayTimes == {h * 3600 + m * 60 : h \in 0 .. MaxHour, m \in 0 .. MaxMinute}

\* the characters of a pattern
IsPattern(s) == \A i \in 1 .. Len(s) : s[i] = "*" \/ s[i] \in {"0", "1", "2", "3", "4", "5", "6", "7", "8", "9"}

\* time has the form of a schedule, <hour pattern>:<minute pattern> with the
\* lengths ParseSaveSchedule asks for and valid characters, and
\* ParseSaveSchedule refuses it: what is left is the value
RejectedByValue(time) ==
  /\ Len(time) \in 3 .. 5
  /\ Find(time) \in {1, 2}
  /\ LET hour_spec == SubSeq(time, 1, Find(time))
         minute_spec == SubSeq(time, Find(time) + 2, Len(time))
     IN /\ minute_spec = <<"*">> \/ Len(minute_spec) = 2
        /\ IsPattern(hour_spec)
        /\ IsPattern(minute_spec)
  /\ ParseSaveSchedule(time) = nullopt

\* the spec ParseSaveSchedule builds from time before it tests the values
SpecOf(time) ==
  [hour_spec |-> SubSeq(time, 1, Find(time)),
   minute_spec |-> SubSeq(time, Find(time) + 2, Len(time))]

\* C40: every spec ParseSaveSchedule accepts is satisfiable, some time of day
\* (hour 0..23, minute 0..59) makes DoesTimeMatchSpecifier true; and a
\* pattern of valid characters that ParseSaveSchedule refuses for its value
\* is matched by no time of day
C40_AcceptedIffSatisfiable ==
  parse_result.called =>
    /\ parse_result.value # nullopt =>
         \E now \in DayTimes : DoesTimeMatchSpecifier(parse_result.value, now)
    /\ RejectedByValue(time_arg) =>
         \A now \in DayTimes : ~DoesTimeMatchSpecifier(SpecOf(time_arg), now)

\* the spec '2*:*' was accepted and matched a time after 20:00
C40_Witness ==
  /\ parse_result.called
  /\ parse_result.value # nullopt
  /\ parse_result.value.hour_spec = <<"2", "*">>
  /\ match.called
  /\ match.result

====
